---- MODULE Spec2Model ----
(***************************************************************************)
(* Model of the SEAL bot: the wallet/repetition loop of app.js             *)
(* (SealBotApp), and the workflows, transaction execution and blob upload  *)
(* of src/sui_actions.js (SuiActions).                                     *)
(*                                                                         *)
(* Every `await` of the source is a step boundary.  The synchronous code   *)
(* between two awaits is one action, except that the loop heads of         *)
(* runBotLogic (wallet loop, repetition loop) are actions of their own.    *)
(*                                                                         *)
(* trace is a history variable: the events (log records, submitted         *)
(* transactions, HTTP requests, delays) of the current wallet              *)
(* initialisation or of the current repetition, oldest first.              *)
(* invocations, failedReps and delaysThisWallet are history variables of   *)
(* the run and of the current wallet.                                      *)
(***************************************************************************)
EXTENDS Integers, Sequences, FiniteSets, TLC

\* ------------------------------------------------------------------ bounds
MaxWallets == 2
MaxReps == 2
MaxPublishers == 2
MaxAddresses == 2
MaxObjects == 2
MaxProxies == 3
MaxCalls == 6
MaxEmits == 1500
MaxSubscribers == 2
MaxUpdates == 2
MaxTyped == 50

\* ------------------------------------------------- configuration (config.js)
MAX_BLOB_UPLOAD_RETRIES == 5
BLOB_UPLOAD_RETRY_DELAY_MS == 3000
TASK_REPEAT_DELAY_MS == 10000
\* Only the later revision of config.js declares this one; nothing imports it.
MAX_BACKOFF_DELAY_MS == 60000

None == "none"

\* ================================================================ KeyMaterial
\* A credential is named by its encoding; CredentialTable gives what the
\* tests of initializeKeypair see in it and whether the key library accepts it.
CredentialTable ==
  [ suiprivkey_valid   |-> [sui |-> TRUE,  b64len44 |-> FALSE, b64bytes |-> 0,  hex64 |-> FALSE, libOk |-> TRUE],
    suiprivkey_corrupt |-> [sui |-> TRUE,  b64len44 |-> FALSE, b64bytes |-> 0,  hex64 |-> FALSE, libOk |-> FALSE],
    suiprivkey_len44   |-> [sui |-> TRUE,  b64len44 |-> TRUE,  b64bytes |-> 32, hex64 |-> FALSE, libOk |-> FALSE],
    base64_32          |-> [sui |-> FALSE, b64len44 |-> TRUE,  b64bytes |-> 32, hex64 |-> FALSE, libOk |-> TRUE],
    base64_33          |-> [sui |-> FALSE, b64len44 |-> TRUE,  b64bytes |-> 33, hex64 |-> FALSE, libOk |-> FALSE],
    hex64              |-> [sui |-> FALSE, b64len44 |-> FALSE, b64bytes |-> 0,  hex64 |-> TRUE,  libOk |-> TRUE],
    hex64_0x           |-> [sui |-> FALSE, b64len44 |-> FALSE, b64bytes |-> 0,  hex64 |-> TRUE,  libOk |-> TRUE],
    mnemonic_valid     |-> [sui |-> FALSE, b64len44 |-> FALSE, b64bytes |-> 0,  hex64 |-> FALSE, libOk |-> TRUE],
    garbage            |-> [sui |-> FALSE, b64len44 |-> FALSE, b64bytes |-> 0,  hex64 |-> FALSE, libOk |-> FALSE] ]

Credentials == DOMAIN CredentialTable

\* Variant of keypairStage that tests for base64 before the prefix.
keypairStage_base64First(keyInput) ==
  LET c == CredentialTable[keyInput] IN
  IF c.b64len44 /\ c.b64bytes = 32 THEN "base64"
  ELSE IF c.sui THEN "suiprivkey"
  ELSE IF c.hex64 THEN "hex"
  ELSE "mnemonic"

\* The stage of the detection chain that handles keyInput (first match wins).
\* Ed25519Keypair.fromSecretKey accepts every key of 32 bytes, so the inner
\* catch of line 64 is never entered.
keypairStage(keyInput) ==
  LET c == CredentialTable[keyInput] IN
  IF c.sui THEN "suiprivkey"
  ELSE IF c.b64len44 /\ c.b64bytes = 32 THEN "base64"
  ELSE IF c.hex64 THEN "hex"
  ELSE "mnemonic"

\* initializeKeypair: the keypair (named by its address) or a thrown error.
initializeKeypair(keyInput) ==
  IF CredentialTable[keyInput].libOk
    THEN [ok |-> TRUE, stage |-> keypairStage(keyInput), address |-> keyInput]
    ELSE [ok |-> FALSE, stage |-> keypairStage(keyInput), address |-> None]

\* The wallet lines the orchestrator model draws from: one that resolves at
\* the hex stage and one that no stage accepts.
WalletPool == {"hex64", "garbage"}

\* =============================================================== sequences
RECURSIVE SeqsUpTo(_, _)
SeqsUpTo(S, n) ==
  IF n = 0 THEN {<<>>}
  ELSE LET shorter == SeqsUpTo(S, n - 1) IN
       shorter \cup {Append(s, x) : s \in {t \in shorter : Len(t) = n - 1}, x \in S}

Range(s) == {s[k] : k \in 1..Len(s)}

Permutations_(s) ==
  {p \in [1..Len(s) -> Range(s)] : \A a, b \in 1..Len(s) : a # b => p[a] # p[b]}

\* What wallets.txt can be: missing, unreadable, or a list of lines, each a
\* key of WalletPool, a comment or blank.
WalletLines == WalletPool \cup {"#comment", ""}

WalletFiles ==
  { [exists |-> FALSE, readable |-> FALSE, lines |-> <<>>],
    [exists |-> TRUE, readable |-> FALSE, lines |-> <<>>] }
  \cup [exists : {TRUE}, readable : {TRUE}, lines : SeqsUpTo(WalletLines, MaxWallets)]

\* Before the constructor of WalletManager has looked.
NoFile == [exists |-> FALSE, readable |-> FALSE, lines |-> <<"unread">>]

KeysFile == [exists |-> TRUE, readable |-> TRUE, lines |-> <<"keys">>]

found(file) ==
  IF file.exists /\ file.readable /\ \E k \in DOMAIN file.lines : file.lines[k] \in WalletPool
    THEN KeysFile ELSE file

\* loadWallets, wallet_manager.js lines 21-44.
loadWallets(file) ==
  IF ~file.exists \/ ~file.readable THEN <<>>
  ELSE SelectSeq(file.lines, LAMBDA key : key # "" /\ key # "#comment")

\* Variant of hasWallets that lets an empty list pass.
hasWallets_always(loaded) == TRUE

\* hasWallets, wallet_manager.js lines 58-60.
hasWallets(loaded) == Len(loaded) > 0

\* ============================================================ event records
LogEv(level) == [kind |-> "log", tag |-> level, arg |-> 0, ok |-> TRUE]
TxEv(name, k, chainOk) == [kind |-> "tx", tag |-> name, arg |-> k, ok |-> chainOk]
CallEv(name) == [kind |-> "call", tag |-> name, arg |-> 0, ok |-> TRUE]
HttpEv(method, k, httpOk) == [kind |-> "http", tag |-> method, arg |-> k, ok |-> httpOk]
DelayEv(what, k) == [kind |-> "delay", tag |-> what, arg |-> k, ok |-> TRUE]

\* ===================================================== TransactionExecutor
\* What the chain client can answer: the call throws (network, signing), or a
\* response whose effects.status.status is one of Statuses ("absent": no
\* effects/status field) and whose objectChanges is a list of objects.
Statuses == {"success", "failure", "absent"}

\* Objects a creation receipt may list, for a wallet of address self.
ObjectPool(self) ==
  { [type |-> "created", owner |-> self,     objectId |-> "obj_entry"],
    [type |-> "created", owner |-> "Shared", objectId |-> "obj_shared"],
    [type |-> "created", owner |-> "0xother", objectId |-> "obj_other"],
    [type |-> "mutated", owner |-> self,     objectId |-> "obj_gas"],
    [type |-> "created", owner |-> "Shared", objectId |-> ""] }

NoResponse == [threw |-> TRUE, status |-> "absent", objectChanges |-> <<>>]

CreateResponses(self) ==
  {NoResponse} \cup
  [threw : {FALSE}, status : Statuses, objectChanges : SeqsUpTo(ObjectPool(self), MaxObjects)]

PlainResponses ==
  {NoResponse} \cup [threw : {FALSE}, status : Statuses, objectChanges : {<<>>}]

\* What the chain did with the transaction, whatever the code makes of it.
chainSucceeded(response) == ~response.threw /\ response.status = "success"

\* Variants of transactionReturns: one that rejects only an explicit failure
\* status, one that does not look at the status.
transactionReturns_unlessFailure(response) == ~response.threw /\ response.status # "failure"

transactionReturns_anyStatus(response) == ~response.threw

\* executeTransaction: returns the response iff it neither threw nor fails
\* the test of line 130.
transactionReturns(response) == ~response.threw /\ response.status = "success"

\* Variants of executeTransactionEvents: one that submits a failed
\* transaction a second time, one whose catch does not log.
executeTransactionEvents_resubmit(name, k, response) ==
  << LogEv("INFO"), TxEv(name, k, chainSucceeded(response)) >>
  \o (IF transactionReturns(response) THEN << LogEv("SUCCESS") >>
      ELSE << TxEv(name, k, chainSucceeded(response)), LogEv("ERROR") >>)

executeTransactionEvents_silentCatch(name, k, response) ==
  << LogEv("INFO"), TxEv(name, k, chainSucceeded(response)) >>
  \o (IF transactionReturns(response) THEN << LogEv("SUCCESS") >> ELSE << >>)

\* Events of one executeTransaction call.
executeTransactionEvents(name, k, response) ==
  << LogEv("INFO"), TxEv(name, k, chainSucceeded(response)),
     IF transactionReturns(response) THEN LogEv("SUCCESS") ELSE LogEv("ERROR") >>

\* Variant of createdObjects without the filter on the change type.
createdObjects_anyChange(response) == response.objectChanges

\* Object-id extraction of createAllowlistEntry / createServiceSubscriptionEntry.
createdObjects(response) == SelectSeq(response.objectChanges, LAMBDA o : o.type = "created")

\* Array.prototype.find over the created objects by owner: the index of the
\* first object owned by owner, 0 if there is none.
firstOwnedBy(co, owner) ==
  IF \E k \in 1..Len(co) : co[k].owner = owner
    THEN CHOOSE k \in 1..Len(co) :
           co[k].owner = owner /\ \A j \in 1..(k - 1) : co[j].owner # owner
    ELSE 0

entryObject(response, self) ==
  LET co == createdObjects(response)
      k == firstOwnedBy(co, self)
  IN IF k = 0 THEN None ELSE co[k].objectId

sharedObject(response) ==
  LET co == createdObjects(response)
      k == firstOwnedBy(co, "Shared")
  IN IF k = 0 THEN None ELSE co[k].objectId

\* `!x?.objectId`: the object is missing or its id is empty.
idMissing(id) == id = None \/ id = ""

idsResolved(response, self) ==
  ~idMissing(entryObject(response, self)) /\ ~idMissing(sharedObject(response))

NoIds == [shared |-> None, entry |-> None]

NoResult == [shared |-> None, entry |-> None, blobId |-> None]

NoError == [kind |-> None, attempt |-> 0, publisher |-> 0]

\* =========================================================== BlobUploadManager
\* A publisher answers with a thrown error (network error, timeout, non-2xx
\* status) or a body whose three id fields are each absent (None), empty or
\* a blob id.
IdValues == {None, "", "blobA", "blobB"}

NoBody == [threw |-> TRUE, newlyCreated |-> None, alreadyCertified |-> None, blobId |-> None]

PublisherResponses ==
  {NoBody} \cup
  [threw : {FALSE}, newlyCreated : IdValues, alreadyCertified : IdValues, blobId : IdValues]

\* Variant of truthy that takes an empty string for a value.
truthy_definedOnly(v) == v # None

\* JavaScript truthiness of an optional string.
truthy(v) == v # None /\ v # ""

\* Variant of parseBlobId that looks at the flat blobId first.
parseBlobId_flatFirst(response) ==
  IF truthy(response.blobId) THEN response.blobId
  ELSE IF truthy(response.newlyCreated) THEN response.newlyCreated
  ELSE IF truthy(response.alreadyCertified) THEN response.alreadyCertified
  ELSE None

\* Lines 311-314: the blob id of a response body, None when no shape matches.
parseBlobId(response) ==
  IF truthy(response.newlyCreated) THEN response.newlyCreated
  ELSE IF truthy(response.alreadyCertified) THEN response.alreadyCertified
  ELSE IF truthy(response.blobId) THEN response.blobId
  ELSE None

\* Variant of publisherIndex that stays on the last publisher instead of
\* wrapping around.
publisherIndex_noWrap(a, K) == IF a <= K THEN a ELSE K

\* Line 299: the index (1-based) into the shuffled list used by an attempt.
publisherIndex(a, K) == ((a - 1) % K) + 1

\* Variant of retryRemains that also waits after the last attempt.
retryRemains_afterLast(a) == a <= MAX_BLOB_UPLOAD_RETRIES

\* Line 328: a retry delay follows a failed attempt.
retryRemains(a) == a < MAX_BLOB_UPLOAD_RETRIES

\* Variant of failedAttemptEvents whose catch logs nothing.
failedAttemptEvents_silent(response) == <<>>

\* Lines 314 and 320-326: the events of an attempt that fails, after its PUT.
failedAttemptEvents(response) ==
  (IF response.threw THEN <<>> ELSE <<LogEv("WARN")>>) \o <<LogEv("ERROR")>>

\* Line 330: the time waited after failed attempt a.
retryDelay(a) == BLOB_UPLOAD_RETRY_DELAY_MS

\* Variant of recordedError that keeps the error of the first failed attempt.
recordedError_keepFirst(previous, error) == IF previous = NoError THEN error ELSE previous

\* Line 321: the error kept in lastError when an attempt fails.
recordedError(previous, error) == error

\* The configured lists considered: none, and MaxPublishers publishers.
PublisherLists == {[k \in 1..n |-> k] : n \in {0, MaxPublishers}}

\* ============================================================== ProxyManager
\* A line of proxies.txt: whether it starts with http:// or https://, what
\* split(':') gives and how many parts split('@') gives.
ProxyPool ==
  { [scheme |-> TRUE,  parts |-> <<"http", "//host", "80">>, atParts |-> 1],
    [scheme |-> FALSE, parts |-> <<"host", "80">>, atParts |-> 1],
    [scheme |-> FALSE, parts |-> <<"user", "pass@host", "80">>, atParts |-> 2],
    [scheme |-> FALSE, parts |-> <<"host", "80", "user", "pass">>, atParts |-> 1],
    [scheme |-> FALSE, parts |-> <<"host">>, atParts |-> 1],
    [scheme |-> FALSE, parts |-> <<"a", "b", "c">>, atParts |-> 1] }

\* null
NoProxy == <<>>

\* Lines 68-80: the URL made of an entry, as the list of its pieces; NoProxy
\* for a format that is not supported.
formatProxy(entry) ==
  IF entry.scheme THEN entry.parts
  ELSE IF entry.atParts = 2 /\ Len(entry.parts) = 3 THEN <<"http", "//">> \o entry.parts
  ELSE IF Len(entry.parts) = 4
    THEN <<"http", "//", entry.parts[3], entry.parts[4], "@", entry.parts[1], entry.parts[2]>>
  ELSE IF Len(entry.parts) = 2 THEN <<"http", "//">> \o entry.parts
  ELSE NoProxy

\* Variant of advanceCursor without the wrap-around.
advanceCursor_noWrap(cursor, N) == cursor + 1

\* Variant of advanceCursor that steps over an entry.
advanceCursor_byTwo(cursor, N) == (cursor + 2) % N

\* Line 64.
advanceCursor(cursor, N) == (cursor + 1) % N

\* Variant of tryNextProxy without the test of the cursor.
tryNextProxy_noCursorTest(N, cursor) == N > 1

\* Line 83: after an unsupported entry, with the cursor already advanced,
\* the method calls itself.
tryNextProxy(N, cursor) == N > 1 /\ cursor # 0

\* createProxyAgent() lines 98-110 with the whole of getNextProxyUrl, as one
\* synchronous call on the list and the cursor: the position (from 1) of the
\* entry whose URL the agent is made of, 0 for null, and the cursor left
\* behind.  new HttpsProxyAgent(url) is taken not to throw on a formatted URL.
RECURSIVE createProxyAgent(_, _)
createProxyAgent(list, cursor) ==
  IF Len(list) = 0 THEN [entry |-> 0, cursor |-> cursor]
  ELSE LET next == advanceCursor(cursor, Len(list)) IN
       IF formatProxy(list[cursor + 1]) # NoProxy THEN [entry |-> cursor + 1, cursor |-> next]
       ELSE IF tryNextProxy(Len(list), next) THEN createProxyAgent(list, next)
       ELSE [entry |-> 0, cursor |-> next]

\* ================================================================== EventBus
\* bot_logger.js line 34: the capacity of logHistory.
maxHistory == 1000

\* What a handler registered with logger.on does when it is invoked: it
\* returns, or it throws.
HandlerKinds == {"ok", "throws"}

\* The position of the first handler that throws, 0 when none does.
RECURSIVE firstThrow(_, _)
firstThrow(handlers, k) ==
  IF k > Len(handlers) THEN 0
  ELSE IF handlers[k] = "throws" THEN k
  ELSE firstThrow(handlers, k + 1)

\* this.emit(...) of bot_logger.js lines 60 and 111: EventEmitter invokes
\* the handlers in the order of their registration, inside no try/catch;
\* what a handler throws leaves emit at once, towards the caller of log().
emit(handlers) ==
  LET t == firstThrow(handlers, 1) IN
  [ran |-> IF t = 0 THEN Len(handlers) ELSE t, threw |-> t # 0]

\* Variant of pushHistory that never discards.
pushHistory_unbounded(history, logEntry) == Append(history, logEntry)

\* Lines 54-57: push, then shift when the history is over its capacity.
pushHistory(history, logEntry) ==
  LET pushed == Append(history, logEntry) IN
  IF Len(pushed) > maxHistory THEN Tail(pushed) ELSE pushed

\* tui.js lines 166-169.
InitialStatus ==
  [loadedWallet |-> "N/A", walletIndex |-> 0, totalWallets |-> 0,
   activeBots |-> 0, overallStatus |-> "Initializing..."]

\* The objects passed to logger.updateStatus: any subset of three of the
\* fields, each with one of two values.
StatusUpdates ==
  { [f \in S |-> full[f]] :
      full \in [loadedWallet : {"0xA", "0xB"}, activeBots : {0, 1},
                overallStatus : {"Running", "Completed"}],
      S \in SUBSET {"loadedWallet", "activeBots", "overallStatus"} }

\* Variant of mergeStatus that keeps of the snapshot only what the update
\* carries.
mergeStatus_replace(current, statusUpdateData) ==
  [f \in DOMAIN current |->
     IF f \in DOMAIN statusUpdateData THEN statusUpdateData[f] ELSE InitialStatus[f]]

\* tui.js line 323: { ...this.currentStatus, ...statusUpdateData }.
mergeStatus(current, statusUpdateData) ==
  [f \in DOMAIN current \cup DOMAIN statusUpdateData |->
     IF f \in DOMAIN statusUpdateData THEN statusUpdateData[f] ELSE current[f]]

\* ============================================================ WorkflowEngine
\* An additional address as JavaScript sees it: its typeof and, for a
\* string, its text.
AddressValues ==
  { [type |-> "string", val |-> "0xaa"],
    [type |-> "string", val |-> "not-an-address-but-string"],
    [type |-> "string", val |-> ""],
    [type |-> "object", val |-> "null"] }

\* Variant of addressAccepted without the truthiness test.
addressAccepted_anyString(addr) == addr.type = "string"

\* Line 394: `addr && typeof addr === 'string'`.
addressAccepted(addr) == addr.type = "string" /\ addr.val # ""

\* Variants of the step orders: the allowlist workflow without the add of the
\* own address, the subscription workflow publishing without an upload.
allowlistStepAfter_noOwnAddress(step) ==
  CASE step = "createAllowlistEntry" -> "uploadBlob"
    [] step = "addOwnAddress" -> "additionalAddresses"
    [] step = "additionalAddresses" -> "uploadBlob"
    [] step = "uploadBlob" -> "publishBlob"
    [] step = "publishBlob" -> "returned"

subscriptionStepAfter_noUpload(step) ==
  CASE step = "createServiceSubscriptionEntry" -> "publishBlob"
    [] step = "uploadBlob" -> "publishBlob"
    [] step = "publishBlob" -> "returned"

\* The order of the awaited steps of the two workflows (lines 391-398 and
\* 419-421): the step that follows a completed step.
allowlistStepAfter(step) ==
  CASE step = "createAllowlistEntry" -> "addOwnAddress"
    [] step = "addOwnAddress" -> "additionalAddresses"
    [] step = "additionalAddresses" -> "uploadBlob"
    [] step = "uploadBlob" -> "publishBlob"
    [] step = "publishBlob" -> "returned"

subscriptionStepAfter(step) ==
  CASE step = "createServiceSubscriptionEntry" -> "uploadBlob"
    [] step = "uploadBlob" -> "publishBlob"
    [] step = "publishBlob" -> "returned"

\* =================================================== WalletTaskOrchestrator
\* What the operator types at the repetition prompt: the kind of text and
\* what parseInt makes of it (nan, or the number num).
RepeatInputs ==
  [text : {"blank", "word", "readError"}, nan : {TRUE}, num : {0}]
  \cup [text : {"digits", "digitsThenWord"}, nan : {FALSE}, num : (-1)..MaxReps]

\* What can be typed at the prompt when the prompt is taken alone.
PromptInputs ==
  [text : {"blank", "word", "readError"}, nan : {TRUE}, num : {0}]
  \cup [text : {"digits", "digitsThenWord"}, nan : {FALSE}, num : (-MaxTyped)..MaxTyped]

\* Nothing was typed yet.
NoInput == [text |-> "none", nan |-> TRUE, num |-> 0]

\* Variant of parseRepetitions that accepts every number that is not negative.
parseRepetitions_nonNegative(input) ==
  IF input.text = "readError" THEN 1
  ELSE IF ~input.nan /\ input.num >= 0 THEN input.num
  ELSE 1

\* Lines 61-86.
parseRepetitions(input) ==
  IF input.text = "readError" THEN 1
  ELSE IF ~input.nan /\ input.num > 0 THEN input.num
  ELSE 1

\* Variant of repetitionLoopContinues that stops one repetition early.
repetitionLoopContinues_oneShort(r, R) == r < R

\* Line 155: the repetition loop runs rep while this holds.
repetitionLoopContinues(r, R) == r <= R

\* Line 172: a delay follows a completed repetition.
delayAfterRepetition(r, R) == r < R /\ TASK_REPEAT_DELAY_MS > 0

\* Variants of the two catch blocks: the `break` of line 183 enabled, the
\* wallet error thrown on.
breakOnTaskError_enabled == TRUE

rethrowWalletError_enabled == TRUE

\* Lines 182-183: the catch of a repetition does not leave the loop.
breakOnTaskError == FALSE

\* Lines 187-191: the catch of a wallet swallows the error.
rethrowWalletError == FALSE

\* ================================================================== state
VARIABLES
  PUBLISHER_URLS,        \* config: the publisher list
  appPc,                 \* position of SealBotApp
  isRunning, repetitionsPerWallet,
  wallets,               \* walletManager.getWallets()
  i, rep,                \* loop variables of runBotLogic (i is 0-based)
  suiActions,            \* the SuiActions of the current wallet: its address
  overallStatus, activeBots,
  actionType, imageSource, additionalAddresses,   \* workflow parameters
  wfPc,                  \* position inside the workflow
  addrIdx,               \* position in additionalAddresses (1-based)
  ids,                   \* the two object ids of the creation step
  blobId,
  result,                \* the WorkflowResult returned, NoResult if none
  thrownError,           \* the error the workflow threw, None if none
  attempt, shuffledPublishers, lastError,         \* uploadBlob locals
  trace, invocations, failedReps, delaysThisWallet,
  receipt,               \* direct workflow call: what the chain client answered
                         \* in the last step, NoTx if it submitted nothing
  body,                  \* direct uploadBlob call: what the publisher answered
                         \* in the last step, NoPut if it sent nothing
  walletFile,            \* what initialize() found at wallets.txt: the file
                         \* when it held no key, KeysFile when it held some
  proxies, currentProxyIndex,    \* ProxyManager fields
  proxyPc,               \* position inside getNextProxyUrl
  inspected,             \* entries read by the current getNextProxyUrl call
  proxyReturns,          \* what the calls of getNextProxyUrl returned so far
  logHistory,            \* BotLogger field; an event is its emission number
  emitted,               \* the calls of log() so far
  subscribers,           \* the handlers registered for 'log', in order
  lastEmit,              \* the last emit: handlers invoked, and whether it threw
  currentStatus,         \* TerminalUI field
  statusUpdates,         \* the objects passed to updateStatus so far
  repeatInput,           \* the prompt taken alone: what was typed, NoInput before
  keypairs,              \* the constructor taken alone: what initializeKeypair gave
  proxiesUsed,           \* with proxies loaded: the entry each HTTP request went
                         \* through (its position in proxies, 0 for no proxy)
  stoppedAt              \* "none", or where the run was when Ctrl+C was pressed

appVars == <<appPc, isRunning, repetitionsPerWallet, wallets, i, rep, suiActions,
             overallStatus, activeBots, invocations, failedReps, delaysThisWallet>>
proxyVars == <<proxies, currentProxyIndex, proxyPc, inspected, proxyReturns>>
busVars == <<logHistory, emitted, subscribers, lastEmit, currentStatus, statusUpdates>>
auxVars == <<repeatInput, keypairs, proxiesUsed, stoppedAt>>
\* What a request of uploadBlob leaves alone of paramVars.
requestFixedVars == <<PUBLISHER_URLS, actionType, imageSource, additionalAddresses, walletFile,
                      proxies, proxyPc, inspected, proxyReturns, busVars, repeatInput, keypairs,
                      stoppedAt>>
\* What no step of a workflow or of the repetition loop assigns.
paramVars == <<PUBLISHER_URLS, actionType, imageSource, additionalAddresses, walletFile,
               proxyVars, busVars, auxVars>>
wfVars == <<wfPc, addrIdx, ids, blobId, result, thrownError>>
upVars == <<attempt, shuffledPublishers, lastError>>
ioVars == <<receipt, body>>

\* The values of receipt and body after a step without a submission.
NoTx == [threw |-> FALSE, status |-> "unsent", objectChanges |-> <<>>]

NoPut == [threw |-> FALSE, newlyCreated |-> "unsent", alreadyCertified |-> "unsent",
          blobId |-> "unsent"]

received(response) == IF appPc = "direct" THEN response ELSE NoTx

answered(response) == IF appPc = "upload" THEN response ELSE NoPut
vars == <<appVars, paramVars, wfVars, upVars, ioVars, trace>>

totalWallets == Len(wallets)

\* No proxies.txt: getNextProxyUrl returns null and assigns nothing.
NoProxies ==
  /\ proxies = <<>> /\ currentProxyIndex = 0
  /\ proxyPc = "idle" /\ inspected = 0 /\ proxyReturns = <<>>

\* A logger and a terminal UI just constructed.  The specifications of the
\* application and of the workflows follow the log stream in trace.
NoEvents ==
  /\ logHistory = <<>> /\ emitted = 0
  /\ lastEmit = [ran |-> 0, threw |-> FALSE]
  /\ currentStatus = InitialStatus /\ statusUpdates = <<>>

\* The history variables of the specifications that take one method alone.
NoHistory ==
  repeatInput = NoInput /\ keypairs = <<>> /\ proxiesUsed = <<>> /\ stoppedAt = "none"

WorkflowIdle ==
  /\ wfPc = "idle" /\ addrIdx = 1 /\ ids = NoIds /\ blobId = None
  /\ result = NoResult /\ thrownError = None
  /\ attempt = 0 /\ shuffledPublishers = <<>> /\ lastError = NoError
  /\ receipt = NoTx /\ body = NoPut

\* After `new SealBotApp()`; the workflow parameters are the constants of
\* runBotLogic lines 125-127.
Init ==
  /\ PUBLISHER_URLS \in PublisherLists
  /\ appPc = "constructed"
  /\ isRunning = FALSE /\ repetitionsPerWallet = 1
  /\ wallets = <<>> /\ i = 0 /\ rep = 0 /\ suiActions = None
  /\ overallStatus = "Initializing..." /\ activeBots = 0
  /\ actionType = "allowlist" /\ imageSource = "url" /\ additionalAddresses = <<>>
  /\ WorkflowIdle
  /\ trace = <<>> /\ invocations = <<>> /\ failedReps = {} /\ delaysThisWallet = 0
  /\ walletFile = NoFile
  /\ NoHistory
  /\ NoEvents /\ subscribers = <<>>
  /\ NoProxies

\* ===================================================== orchestrator actions
\* initialize(), lines 45-111: load the wallets, exit when there are none,
\* else read the repetition count.
Initialize ==
  /\ appPc = "constructed"
  /\ \E file \in WalletFiles, input \in RepeatInputs, proxyLoad \in {"WARN", "ERROR"} :
       LET loaded == loadWallets(file) IN
       /\ wallets' = loaded
       /\ walletFile' = found(file)
       /\ IF ~hasWallets(loaded)
            THEN /\ appPc' = "exited"
                 /\ trace' = <<LogEv(proxyLoad), LogEv("ERROR")>>
                 /\ UNCHANGED <<repetitionsPerWallet, overallStatus, activeBots>>
            ELSE /\ appPc' = "ready"
                 /\ repetitionsPerWallet' = parseRepetitions(input)
                 /\ overallStatus' = "Ready"
                 /\ activeBots' = 0
                 /\ trace' = <<LogEv(proxyLoad), LogEv("SUCCESS"), CallEv("askQuestion"),
                                LogEv("INFO"), LogEv("SUCCESS"), LogEv("WARN"),
                                LogEv("INFO"), LogEv("INFO")>>
  /\ UNCHANGED <<isRunning, i, rep, suiActions, invocations, failedReps, delaysThisWallet>>
  /\ UNCHANGED <<PUBLISHER_URLS, actionType, imageSource, additionalAddresses>>
  /\ UNCHANGED <<wfVars, upVars, ioVars, proxyVars, busVars, auxVars>>

\* runBotLogic, lines 116-137.
RunBotLogic ==
  /\ appPc = "ready"
  /\ isRunning' = TRUE
  /\ overallStatus' = "Running"
  /\ activeBots' = totalWallets
  /\ i' = 0
  /\ appPc' = "wallet"
  /\ UNCHANGED <<repetitionsPerWallet, wallets, rep, suiActions, invocations,
                 failedReps, delaysThisWallet>>
  /\ UNCHANGED <<paramVars, wfVars, upVars, ioVars, trace>>

\* Variant of remainingBots that still counts the wallet that has finished.
remainingBots_current(total, k) == total - k

\* Line 195: the active bots published when wallet k (0-based) has finished.
remainingBots(total, k) == total - (k + 1)

\* Lines 191-208: the finally block of a wallet, the step of the wallet loop
\* and, after the last wallet, the end of runBotLogic.
finishWallet ==
  /\ activeBots' = remainingBots(totalWallets, i)
  /\ i' = i + 1
  /\ suiActions' = None
  /\ IF i + 1 < totalWallets
       THEN appPc' = "wallet" /\ UNCHANGED <<isRunning, overallStatus>>
       ELSE appPc' = "completed" /\ isRunning' = FALSE /\ overallStatus' = "Completed"

\* Variant of taskErrorEvents with a catch that logs nothing.
taskErrorEvents_silent == <<>>

\* Line 181: what the catch of a repetition logs.
taskErrorEvents == <<LogEv("ERROR")>>

\* Line 189: what the catch of a wallet logs.
walletErrorEvents == <<LogEv("ERROR")>>

\* Lines 138-153: one pass of the wallet loop up to the repetition loop;
\* lines 187-196 when the SuiActions constructor throws.
ProcessWallet ==
  /\ appPc = "wallet"
  /\ i < totalWallets
  /\ LET kp == initializeKeypair(wallets[i + 1]) IN
       IF kp.ok
         THEN /\ suiActions' = kp.address
              /\ rep' = 1
              /\ appPc' = "repetition"
              /\ overallStatus' = "Processing"
              /\ trace' = <<LogEv("INFO"), LogEv("INFO"), LogEv("WALLET"), LogEv("INFO")>>
              /\ UNCHANGED <<i, isRunning, activeBots>>
         ELSE /\ trace' = <<LogEv("INFO"), LogEv("ERROR")>> \o walletErrorEvents
                            \o <<LogEv("INFO"), LogEv("INFO")>>
              /\ UNCHANGED rep
              /\ IF rethrowWalletError
                   THEN /\ appPc' = "exited"
                        /\ activeBots' = remainingBots(totalWallets, i)
                        /\ UNCHANGED <<i, suiActions, isRunning, overallStatus>>
                   ELSE finishWallet
  /\ failedReps' = {}
  /\ delaysThisWallet' = 0
  /\ UNCHANGED <<repetitionsPerWallet, wallets, invocations>>
  /\ UNCHANGED <<paramVars, wfVars, upVars, ioVars>>

\* The locals of a fresh workflow call that starts at step first.
callWorkflow(first) ==
  /\ wfPc' = first
  /\ addrIdx' = 1 /\ ids' = NoIds /\ blobId' = None
  /\ result' = NoResult /\ thrownError' = None
  /\ attempt' = 0 /\ shuffledPublishers' = <<>> /\ lastError' = NoError
  /\ receipt' = NoTx /\ body' = NoPut

\* Lines 155-167: the head of the repetition loop and the call of the
\* configured workflow.
StartRepetition ==
  /\ appPc = "repetition"
  /\ repetitionLoopContinues(rep, repetitionsPerWallet)
  /\ IF actionType \in {"allowlist", "subscription"}
       THEN /\ appPc' = "awaitWorkflow"
            /\ invocations' = Append(invocations, <<i, rep>>)
            /\ trace' = <<LogEv("INFO"), LogEv("INFO")>>
            /\ callWorkflow(IF actionType = "allowlist" THEN "createAllowlistEntry"
                            ELSE "createServiceSubscriptionEntry")
       ELSE /\ appPc' = "walletDone"
            /\ trace' = <<LogEv("INFO"), LogEv("ERROR")>>
            /\ UNCHANGED <<invocations, wfVars, upVars, ioVars>>
  /\ UNCHANGED <<isRunning, repetitionsPerWallet, wallets, i, rep, suiActions,
                 overallStatus, activeBots, failedReps, delaysThisWallet>>
  /\ UNCHANGED paramVars

\* Lines 168-177: the workflow returned.
RepetitionCompleted ==
  /\ appPc = "awaitWorkflow"
  /\ wfPc = "returned"
  /\ wfPc' = "idle"
  /\ IF delayAfterRepetition(rep, repetitionsPerWallet)
       THEN /\ appPc' = "repetitionDelay"
            /\ trace' = trace \o <<LogEv("SUCCESS"), LogEv("WAIT")>>
            /\ UNCHANGED rep
       ELSE /\ appPc' = "repetition"
            /\ trace' = Append(trace, LogEv("SUCCESS"))
            /\ rep' = rep + 1
  /\ UNCHANGED <<isRunning, repetitionsPerWallet, wallets, i, suiActions,
                 overallStatus, activeBots, invocations, failedReps, delaysThisWallet>>
  /\ UNCHANGED <<paramVars, addrIdx, ids, blobId, result, thrownError, upVars, ioVars>>

\* Line 175: the delay between two repetitions has elapsed.
RepetitionDelay ==
  /\ appPc = "repetitionDelay"
  /\ appPc' = "repetition"
  /\ rep' = rep + 1
  /\ delaysThisWallet' = delaysThisWallet + 1
  /\ trace' = Append(trace, DelayEv("repetition", rep))
  /\ UNCHANGED <<isRunning, repetitionsPerWallet, wallets, i, suiActions,
                 overallStatus, activeBots, invocations, failedReps>>
  /\ UNCHANGED <<paramVars, wfVars, upVars, ioVars>>

\* Lines 179-184: the workflow threw.
RepetitionFailed ==
  /\ appPc = "awaitWorkflow"
  /\ wfPc = "thrown"
  /\ wfPc' = "idle"
  /\ trace' = trace \o taskErrorEvents
  /\ failedReps' = failedReps \cup {rep}
  /\ IF breakOnTaskError
       THEN appPc' = "walletDone" /\ UNCHANGED rep
       ELSE appPc' = "repetition" /\ rep' = rep + 1
  /\ UNCHANGED <<isRunning, repetitionsPerWallet, wallets, i, suiActions,
                 overallStatus, activeBots, invocations, delaysThisWallet>>
  /\ UNCHANGED <<paramVars, addrIdx, ids, blobId, result, thrownError, upVars, ioVars>>

\* Lines 185-208: the repetition loop is left.
FinishWallet ==
  /\ \/ appPc = "walletDone"
     \/ appPc = "repetition" /\ ~repetitionLoopContinues(rep, repetitionsPerWallet)
  /\ finishWallet
  /\ trace' = trace \o <<LogEv("INFO"), LogEv("INFO")>>
  /\ UNCHANGED <<repetitionsPerWallet, wallets, rep, invocations, failedReps,
                 delaysThisWallet>>
  /\ UNCHANGED <<paramVars, wfVars, upVars, ioVars>>

\* ========================================================= workflow actions
\* The catch blocks of the workflows (lines 403-406, 426-429): log, rethrow.
\* A method called outside a workflow throws to its caller without them.
workflowThrows(err, events) ==
  /\ wfPc' = "thrown"
  /\ thrownError' = err
  /\ trace' = trace \o events \o (IF actionType = None THEN <<>> ELSE <<LogEv("ERROR")>>)

stepAfter(step) ==
  IF actionType = "allowlist" THEN allowlistStepAfter(step)
  ELSE IF actionType = "subscription" THEN subscriptionStepAfter(step)
  ELSE "returned"

\* The position reached when control arrives at step with k the next index
\* of the additional-address loop (line 393: an exhausted loop is left).
arriveAt(step, k) ==
  IF step = "additionalAddresses" /\ k > Len(additionalAddresses)
    THEN stepAfter("additionalAddresses")
    ELSE step

\* createAllowlistEntry, lines 150-172.
CreateAllowlistEntry ==
  /\ wfPc = "createAllowlistEntry"
  /\ \E response \in CreateResponses(suiActions) :
       /\ receipt' = received(response)
       /\ LET events == <<LogEv("INFO")>> \o executeTransactionEvents("create", 0, response) IN
          IF ~transactionReturns(response)
            THEN workflowThrows("TransactionFailed", events) /\ UNCHANGED ids
          ELSE IF ~idsResolved(response, suiActions)
            THEN workflowThrows("ObjectIdResolutionFailed", Append(events, LogEv("ERROR")))
                 /\ UNCHANGED ids
          ELSE /\ ids' = [shared |-> sharedObject(response),
                          entry |-> entryObject(response, suiActions)]
               /\ trace' = Append(trace \o events, LogEv("SUCCESS"))
               /\ wfPc' = arriveAt(stepAfter("createAllowlistEntry"), addrIdx)
               /\ UNCHANGED thrownError
  /\ body' = NoPut
  /\ UNCHANGED <<appVars, paramVars, addrIdx, blobId, result, upVars>>

\* addAddressToAllowlist for this.address, lines 392 and 181-197.
AddOwnAddress ==
  /\ wfPc = "addOwnAddress"
  /\ \E response \in PlainResponses :
       /\ receipt' = received(response)
       /\ LET events == <<LogEv("INFO")>> \o executeTransactionEvents("add", 0, response) IN
          IF ~transactionReturns(response)
            THEN workflowThrows("TransactionFailed", events)
            ELSE /\ trace' = Append(trace \o events, LogEv("SUCCESS"))
                 /\ wfPc' = arriveAt(stepAfter("addOwnAddress"), addrIdx)
                 /\ UNCHANGED thrownError
  /\ body' = NoPut
  /\ UNCHANGED <<appVars, paramVars, addrIdx, ids, blobId, result, upVars>>

\* Line 394: an accepted entry of additionalAddresses is added.
AddAdditionalAddress ==
  /\ wfPc = "additionalAddresses"
  /\ addrIdx <= Len(additionalAddresses)
  /\ addressAccepted(additionalAddresses[addrIdx])
  /\ \E response \in PlainResponses :
       /\ receipt' = received(response)
       /\ LET events == <<LogEv("INFO")>> \o executeTransactionEvents("add", addrIdx, response) IN
          IF ~transactionReturns(response)
            THEN workflowThrows("TransactionFailed", events) /\ UNCHANGED addrIdx
            ELSE /\ trace' = Append(trace \o events, LogEv("SUCCESS"))
                 /\ addrIdx' = addrIdx + 1
                 /\ wfPc' = arriveAt("additionalAddresses", addrIdx + 1)
                 /\ UNCHANGED thrownError
  /\ body' = NoPut
  /\ UNCHANGED <<appVars, paramVars, ids, blobId, result, upVars>>

\* Line 395: an entry that is not accepted is skipped with a warning.
SkipAdditionalAddress ==
  /\ wfPc = "additionalAddresses"
  /\ addrIdx <= Len(additionalAddresses)
  /\ ~addressAccepted(additionalAddresses[addrIdx])
  /\ trace' = Append(trace, [LogEv("WARN") EXCEPT !.arg = addrIdx])
  /\ addrIdx' = addrIdx + 1
  /\ wfPc' = arriveAt("additionalAddresses", addrIdx + 1)
  /\ receipt' = NoTx /\ body' = NoPut
  /\ UNCHANGED <<appVars, paramVars, ids, blobId, result, thrownError, upVars>>

\* createServiceSubscriptionEntry, lines 207-233.
CreateServiceSubscriptionEntry ==
  /\ wfPc = "createServiceSubscriptionEntry"
  /\ \E response \in CreateResponses(suiActions) :
       /\ receipt' = received(response)
       /\ LET events == <<LogEv("INFO")>> \o executeTransactionEvents("create", 0, response) IN
          IF ~transactionReturns(response)
            THEN workflowThrows("TransactionFailed", events) /\ UNCHANGED ids
          ELSE IF ~idsResolved(response, suiActions)
            THEN workflowThrows("ObjectIdResolutionFailed", Append(events, LogEv("ERROR")))
                 /\ UNCHANGED ids
          ELSE /\ ids' = [shared |-> sharedObject(response),
                          entry |-> entryObject(response, suiActions)]
               /\ trace' = Append(trace \o events, LogEv("SUCCESS"))
               /\ wfPc' = stepAfter("createServiceSubscriptionEntry")
               /\ UNCHANGED thrownError
  /\ body' = NoPut
  /\ UNCHANGED <<appVars, paramVars, addrIdx, blobId, result, upVars>>

\* fs.readFile of loadLocalImage line 265 and how it ended.
ReadEv(io) == [kind |-> "read", tag |-> io, arg |-> 0, ok |-> io = "ok"]

\* Variant of resolveImage whose loadLocalImage rethrows every error as it is.
resolveImage_rethrowAll(source, io) ==
  CASE source = "buffer" -> [err |-> None, events |-> <<>>]
    [] source = "url" ->
         IF io = "ok"
           THEN [err |-> None,
                 events |-> <<LogEv("INFO"), HttpEv("GET", 0, TRUE), LogEv("SUCCESS")>>]
           ELSE [err |-> "ImageFetchFailed",
                 events |-> <<LogEv("INFO"), HttpEv("GET", 0, FALSE), LogEv("ERROR")>>]
    [] source = "path" ->
         IF io = "ok"
           THEN [err |-> None, events |-> <<LogEv("INFO"), ReadEv(io), LogEv("SUCCESS")>>]
           ELSE [err |-> "LocalImageReadFailed",
                 events |-> <<LogEv("INFO"), ReadEv(io), LogEv("ERROR")>>]
    [] OTHER -> [err |-> "InvalidImageSource", events |-> <<>>]

\* uploadBlob lines 285-290 with fetchImageFromUrl (240-254) and
\* loadLocalImage (261-275): the error thrown, None if the image was
\* obtained, and the events on the way.  io is the outcome of the GET or of
\* the file read.
resolveImage(source, io) ==
  CASE source = "buffer" -> [err |-> None, events |-> <<>>]
    [] source = "url" ->
         IF io = "ok"
           THEN [err |-> None,
                 events |-> <<LogEv("INFO"), HttpEv("GET", 0, TRUE), LogEv("SUCCESS")>>]
           ELSE [err |-> "ImageFetchFailed",
                 events |-> <<LogEv("INFO"), HttpEv("GET", 0, FALSE), LogEv("ERROR")>>]
    [] source = "path" ->
         IF io = "ok"
           THEN [err |-> None, events |-> <<LogEv("INFO"), ReadEv(io), LogEv("SUCCESS")>>]
           ELSE [err |-> IF io = "ENOENT" THEN "LocalImageNotFound"
                         ELSE "LocalImageReadFailed",
                 events |-> <<LogEv("INFO"), ReadEv(io), LogEv("ERROR")>>]
    [] OTHER -> [err |-> "InvalidImageSource", events |-> <<>>]

\* Lines 242 and 305: a request takes its agent from the proxy manager.
takeProxy ==
  LET agent == createProxyAgent(proxies, currentProxyIndex) IN
  /\ currentProxyIndex' = agent.cursor
  /\ proxiesUsed' = IF Len(proxies) = 0 THEN proxiesUsed
                    ELSE Append(proxiesUsed, agent.entry)

\* uploadBlob lines 284-296: resolve the image, check the publisher list,
\* shuffle it.
ResolveImage ==
  /\ wfPc = "uploadBlob"
  /\ IF imageSource = "url" THEN takeProxy ELSE UNCHANGED <<currentProxyIndex, proxiesUsed>>
  /\ \E io \in {"ok", "error", "ENOENT"}, shuffled \in Permutations_(PUBLISHER_URLS) :
       LET called == <<CallEv("uploadBlob")>>
           resolution == resolveImage(imageSource, io)
       IN
       IF resolution.err # None
         THEN workflowThrows(resolution.err, called \o resolution.events)
              /\ UNCHANGED <<attempt, shuffledPublishers>>
       ELSE IF Len(PUBLISHER_URLS) = 0
         THEN workflowThrows("NoPublishersConfigured",
                             called \o resolution.events \o <<LogEv("INFO")>>)
              /\ UNCHANGED <<attempt, shuffledPublishers>>
       ELSE /\ shuffledPublishers' = shuffled
            /\ attempt' = 1
            /\ wfPc' = "uploadAttempt"
            /\ trace' = trace \o called \o resolution.events \o <<LogEv("INFO")>>
            /\ UNCHANGED thrownError
  /\ receipt' = NoTx /\ body' = NoPut
  /\ UNCHANGED <<appVars, requestFixedVars, addrIdx, ids, blobId, result, lastError>>

\* uploadBlob lines 298-335: one pass of the attempt loop up to its next await.
UploadAttempt ==
  /\ wfPc = "uploadAttempt"
  /\ takeProxy
  /\ \E response \in PublisherResponses :
       /\ body' = answered(response)
       /\ LET publisher == shuffledPublishers[publisherIndex(attempt, Len(shuffledPublishers))]
              id == IF response.threw THEN None ELSE parseBlobId(response)
              sent == <<LogEv("WAIT"), HttpEv("PUT", publisher, ~response.threw)>>
              failed == sent \o failedAttemptEvents(response)
          IN
          IF id # None
            THEN /\ blobId' = id
                 /\ trace' = Append(trace \o sent, LogEv("SUCCESS"))
                 /\ wfPc' = stepAfter("uploadBlob")
                 /\ UNCHANGED <<lastError, thrownError>>
            ELSE /\ lastError' =
                      recordedError(lastError,
                                    [kind |-> IF response.threw THEN "http" ELSE "invalidResponse",
                                     attempt |-> attempt, publisher |-> publisher])
                 /\ UNCHANGED blobId
                 /\ IF retryRemains(attempt)
                      THEN /\ wfPc' = "uploadRetryDelay"
                           /\ trace' = Append(trace \o failed, LogEv("WAIT"))
                           /\ UNCHANGED thrownError
                      ELSE workflowThrows("BlobUploadExhausted", Append(failed, LogEv("ERROR")))
  /\ receipt' = NoTx
  /\ UNCHANGED <<appVars, requestFixedVars, addrIdx, ids, result, attempt, shuffledPublishers>>

\* uploadBlob line 330 and the loop step of line 298.
UploadRetryDelay ==
  /\ wfPc = "uploadRetryDelay"
  /\ attempt' = attempt + 1
  /\ IF attempt + 1 <= MAX_BLOB_UPLOAD_RETRIES
       THEN /\ wfPc' = "uploadAttempt"
            /\ trace' = Append(trace, DelayEv("retry", retryDelay(attempt)))
            /\ UNCHANGED thrownError
       ELSE workflowThrows("BlobUploadExhausted",
                           <<DelayEv("retry", retryDelay(attempt)), LogEv("ERROR")>>)
  /\ receipt' = NoTx /\ body' = NoPut
  /\ UNCHANGED <<appVars, paramVars, addrIdx, ids, blobId, result, shuffledPublishers, lastError>>

\* publishBlobToAllowlist (lines 345-357) and lines 400-402.
PublishBlobToAllowlist ==
  /\ wfPc = "publishBlob"
  /\ actionType = "allowlist"
  /\ \E response \in PlainResponses :
       /\ receipt' = received(response)
       /\ LET events == <<LogEv("INFO")>> \o executeTransactionEvents("publish", 0, response) IN
          IF ~transactionReturns(response)
            THEN workflowThrows("TransactionFailed", events) /\ UNCHANGED result
            ELSE /\ trace' = trace \o events \o <<LogEv("SUCCESS"), LogEv("SUCCESS")>>
                 /\ result' = [shared |-> ids.shared, entry |-> ids.entry, blobId |-> blobId]
                 /\ wfPc' = stepAfter("publishBlob")
                 /\ UNCHANGED thrownError
  /\ body' = NoPut
  /\ UNCHANGED <<appVars, paramVars, addrIdx, ids, blobId, upVars>>

\* publishBlobToSubscription (lines 366-378) and lines 423-425.
PublishBlobToSubscription ==
  /\ wfPc = "publishBlob"
  /\ actionType = "subscription"
  /\ \E response \in PlainResponses :
       /\ receipt' = received(response)
       /\ LET events == <<LogEv("INFO")>> \o executeTransactionEvents("publish", 0, response) IN
          IF ~transactionReturns(response)
            THEN workflowThrows("TransactionFailed", events) /\ UNCHANGED result
            ELSE /\ trace' = trace \o events \o <<LogEv("SUCCESS"), LogEv("SUCCESS")>>
                 /\ result' = [shared |-> ids.shared, entry |-> ids.entry, blobId |-> blobId]
                 /\ wfPc' = stepAfter("publishBlob")
                 /\ UNCHANGED thrownError
  /\ body' = NoPut
  /\ UNCHANGED <<appVars, paramVars, addrIdx, ids, blobId, upVars>>

\* ==================================================== ProxyManager actions
\* getNextProxyUrl lines 58-61: a call; with no proxies it returns null.
GetNextProxyUrl ==
  /\ proxyPc = "idle"
  /\ Len(proxyReturns) < MaxCalls
  /\ IF Len(proxies) = 0
       THEN /\ proxyReturns' = Append(proxyReturns, [index |-> 0, url |-> NoProxy, inspected |-> 0])
            /\ UNCHANGED <<proxyPc, inspected>>
       ELSE /\ proxyPc' = "inspect"
            /\ inspected' = 0
            /\ UNCHANGED proxyReturns
  /\ UNCHANGED <<proxies, currentProxyIndex>>
  /\ UNCHANGED <<appVars, PUBLISHER_URLS, actionType, imageSource, additionalAddresses,
                 walletFile, wfVars, upVars, ioVars, trace, busVars, auxVars>>

\* getNextProxyUrl lines 63-91: one activation reads the entry under the
\* cursor, advances the cursor and returns the URL, returns null, or calls
\* itself for the next entry.
InspectProxy ==
  /\ proxyPc = "inspect"
  /\ inspected <= Len(proxies)
  /\ LET entry == proxies[currentProxyIndex + 1]
         cursor == advanceCursor(currentProxyIndex, Len(proxies))
         url == formatProxy(entry)
         done == [index |-> currentProxyIndex, url |-> url, inspected |-> inspected + 1]
     IN
     /\ currentProxyIndex' = cursor
     /\ inspected' = inspected + 1
     /\ IF url # NoProxy \/ ~tryNextProxy(Len(proxies), cursor)
          THEN /\ proxyReturns' = Append(proxyReturns, done)
               /\ proxyPc' = "idle"
          ELSE UNCHANGED <<proxyReturns, proxyPc>>
  /\ UNCHANGED proxies
  /\ UNCHANGED <<appVars, PUBLISHER_URLS, actionType, imageSource, additionalAddresses,
                 walletFile, wfVars, upVars, ioVars, trace, busVars, auxVars>>

\* ======================================================== EventBus actions
\* log() lines 43-61: the entry is pushed on the history, the history is cut
\* to its capacity, then the entry is emitted to the handlers.
Log ==
  /\ emitted < MaxEmits
  /\ emitted' = emitted + 1
  /\ logHistory' = pushHistory(logHistory, emitted + 1)
  /\ lastEmit' = emit(subscribers)
  /\ UNCHANGED <<subscribers, currentStatus, statusUpdates>>
  /\ UNCHANGED <<appVars, PUBLISHER_URLS, actionType, imageSource, additionalAddresses,
                 walletFile, wfVars, upVars, ioVars, trace, proxyVars, auxVars>>

\* updateStatus() lines 108-112 emits 'statusUpdate' and nothing else; the
\* handler of the terminal UI (tui.js lines 183-185, 319-331) merges the
\* object into its snapshot.
UpdateStatus ==
  /\ Len(statusUpdates) < MaxUpdates
  /\ \E statusData \in StatusUpdates :
       /\ statusUpdates' = Append(statusUpdates, statusData)
       /\ currentStatus' = mergeStatus(currentStatus, statusData)
  /\ lastEmit' = emit(<<"ok">>)
  /\ UNCHANGED <<logHistory, emitted, subscribers>>
  /\ UNCHANGED <<appVars, PUBLISHER_URLS, actionType, imageSource, additionalAddresses,
                 walletFile, wfVars, upVars, ioVars, trace, proxyVars, auxVars>>

\* ============================================================ prompt action
\* initialize() lines 58-89 taken alone: the answer to the prompt, or the
\* failure to read one, sets repetitionsPerWallet.
AskRepetitions ==
  /\ appPc = "prompt"
  /\ \E input \in PromptInputs :
       /\ repeatInput' = input
       /\ repetitionsPerWallet' = parseRepetitions(input)
  /\ appPc' = "prompted"
  /\ UNCHANGED <<isRunning, wallets, i, rep, suiActions, overallStatus, activeBots,
                 invocations, failedReps, delaysThisWallet>>
  /\ UNCHANGED <<PUBLISHER_URLS, actionType, imageSource, additionalAddresses,
                 walletFile, wfVars, upVars, ioVars, trace, proxyVars, busVars, keypairs,
                 proxiesUsed, stoppedAt>>

\* ======================================================= constructor action
\* new SuiActions(walletKey, proxyManager), lines 36-44, for the next line of
\* the wallet list, taken alone: initializeKeypair lines 52-76 returns a
\* keypair and the constructor logs the address, or it logs one ERROR and
\* throws.
NewSuiActions ==
  /\ appPc = "keys"
  /\ i < totalWallets
  /\ LET kp == initializeKeypair(wallets[i + 1]) IN
       /\ keypairs' = Append(keypairs, kp)
       /\ suiActions' = kp.address
       /\ trace' = Append(trace, IF kp.ok THEN LogEv("INFO") ELSE LogEv("ERROR"))
  /\ i' = i + 1
  /\ UNCHANGED <<appPc, isRunning, repetitionsPerWallet, wallets, rep, overallStatus,
                 activeBots, invocations, failedReps, delaysThisWallet>>
  /\ UNCHANGED <<PUBLISHER_URLS, actionType, imageSource, additionalAddresses,
                 walletFile, wfVars, upVars, ioVars, proxyVars, busVars, repeatInput,
                 proxiesUsed, stoppedAt>>

\* ========================================================== specifications
\* The application: app.js start() with the workflow parameters it hardcodes.
Next ==
  \/ Initialize
  \/ RunBotLogic
  \/ ProcessWallet
  \/ StartRepetition
  \/ RepetitionCompleted
  \/ RepetitionDelay
  \/ RepetitionFailed
  \/ FinishWallet
  \/ CreateAllowlistEntry
  \/ AddOwnAddress
  \/ ResolveImage
  \/ UploadAttempt
  \/ UploadRetryDelay
  \/ PublishBlobToAllowlist

Spec == Init /\ [][Next]_vars

\* Variant of processExit that only lowers the running flag.
processExit_flagOnly ==
  /\ isRunning' = FALSE
  /\ UNCHANGED <<appPc, wfPc>>

\* process.exit(0), tui.js line 199: the process ends, and with it every
\* pending timer, request and continuation of the run.
processExit ==
  /\ appPc' = "stopped" /\ wfPc' = "stopped"
  /\ UNCHANGED isRunning

\* The Ctrl+C key handler of the terminal UI, tui.js lines 195-200.  The
\* handler is a callback of the event loop: it runs while the run is waiting
\* for a transaction, a request or a sleep, or after runBotLogic has ended.
CtrlC ==
  /\ \/ appPc \in {"repetitionDelay", "completed"}
     \/ appPc = "awaitWorkflow" /\ wfPc \notin {"idle", "returned", "thrown"}
  /\ stoppedAt' = IF appPc = "awaitWorkflow" THEN wfPc ELSE appPc
  /\ trace' = Append(trace, LogEv("WARN"))
  /\ processExit
  /\ UNCHANGED <<repetitionsPerWallet, wallets, i, rep, suiActions, overallStatus,
                 activeBots, invocations, failedReps, delaysThisWallet>>
  /\ UNCHANGED <<PUBLISHER_URLS, actionType, imageSource, additionalAddresses, walletFile,
                 proxyVars, busVars, repeatInput, keypairs, proxiesUsed>>
  /\ UNCHANGED <<addrIdx, ids, blobId, result, thrownError, upVars, ioVars>>

\* The application with its terminal UI: the run, and Ctrl+C at any time.
NextInterrupt ==
  \/ Next
  \/ CtrlC

SpecInterrupt == Init /\ [][NextInterrupt]_vars

\* One call of runCompleteAllowlistWorkflow or runCompleteSubscriptionWorkflow
\* on the SuiActions of a resolved wallet, with the image source left at its
\* default and any list of additional addresses.
InitWorkflow ==
  /\ PUBLISHER_URLS \in PublisherLists
  /\ appPc = "direct"
  /\ isRunning = FALSE /\ repetitionsPerWallet = 1
  /\ wallets = <<"hex64">> /\ i = 0 /\ rep = 0
  /\ suiActions = initializeKeypair("hex64").address
  /\ overallStatus = "Initializing..." /\ activeBots = 0
  /\ imageSource = "url"
  /\ \/ /\ actionType = "allowlist"
        /\ additionalAddresses \in SeqsUpTo(AddressValues, MaxAddresses)
        /\ wfPc = "createAllowlistEntry"
     \/ /\ actionType = "subscription"
        /\ additionalAddresses = <<>>
        /\ wfPc = "createServiceSubscriptionEntry"
  /\ addrIdx = 1 /\ ids = NoIds /\ blobId = None
  /\ result = NoResult /\ thrownError = None
  /\ attempt = 0 /\ shuffledPublishers = <<>> /\ lastError = NoError
  /\ receipt = NoTx /\ body = NoPut
  /\ trace = <<LogEv("INFO")>>
  /\ invocations = <<>> /\ failedReps = {} /\ delaysThisWallet = 0
  /\ walletFile = NoFile
  /\ NoHistory
  /\ NoEvents /\ subscribers = <<>>
  /\ NoProxies

NextWorkflow ==
  \/ CreateAllowlistEntry
  \/ AddOwnAddress
  \/ AddAdditionalAddress
  \/ SkipAdditionalAddress
  \/ CreateServiceSubscriptionEntry
  \/ ResolveImage
  \/ UploadAttempt
  \/ UploadRetryDelay
  \/ PublishBlobToAllowlist
  \/ PublishBlobToSubscription

SpecWorkflow == InitWorkflow /\ [][NextWorkflow]_vars

\* One call of uploadBlob(imageSource) on the SuiActions of a resolved
\* wallet, outside any workflow.
InitUpload ==
  /\ PUBLISHER_URLS \in PublisherLists
  /\ appPc = "upload"
  /\ isRunning = FALSE /\ repetitionsPerWallet = 1
  /\ wallets = <<"hex64">> /\ i = 0 /\ rep = 0
  /\ suiActions = initializeKeypair("hex64").address
  /\ overallStatus = "Initializing..." /\ activeBots = 0
  /\ actionType = None /\ additionalAddresses = <<>>
  /\ imageSource \in {"buffer", "url", "path", "other"}
  /\ wfPc = "uploadBlob"
  /\ addrIdx = 1 /\ ids = NoIds /\ blobId = None
  /\ result = NoResult /\ thrownError = None
  /\ attempt = 0 /\ shuffledPublishers = <<>> /\ lastError = NoError
  /\ receipt = NoTx /\ body = NoPut
  /\ trace = <<>>
  /\ invocations = <<>> /\ failedReps = {} /\ delaysThisWallet = 0
  /\ walletFile = NoFile
  /\ NoHistory
  /\ NoEvents /\ subscribers = <<>>
  /\ NoProxies

NextUpload ==
  \/ ResolveImage
  \/ UploadAttempt
  \/ UploadRetryDelay

SpecUpload == InitUpload /\ [][NextUpload]_vars

\* A ProxyManager constructed on a proxies.txt of up to MaxProxies entries,
\* and up to MaxCalls calls of getNextProxyUrl.
InitProxy ==
  /\ proxies \in SeqsUpTo(ProxyPool, MaxProxies)
  /\ currentProxyIndex = 0
  /\ proxyPc = "idle" /\ inspected = 0 /\ proxyReturns = <<>>
  /\ PUBLISHER_URLS = <<>>
  /\ appPc = "proxy"
  /\ isRunning = FALSE /\ repetitionsPerWallet = 1
  /\ wallets = <<>> /\ i = 0 /\ rep = 0 /\ suiActions = None
  /\ overallStatus = "Initializing..." /\ activeBots = 0
  /\ actionType = None /\ imageSource = None /\ additionalAddresses = <<>>
  /\ WorkflowIdle
  /\ trace = <<>> /\ invocations = <<>> /\ failedReps = {} /\ delaysThisWallet = 0
  /\ walletFile = NoFile
  /\ NoHistory
  /\ NoEvents /\ subscribers = <<>>

NextProxy ==
  \/ GetNextProxyUrl
  \/ InspectProxy

SpecProxy == InitProxy /\ [][NextProxy]_vars

\* The application under the scheduling of the event loop: the code between
\* two awaits runs to the next await, and every awaited transaction, upload
\* attempt and delay settles, so a step that can be taken is taken.
SpecLive == Init /\ [][Next]_vars /\ WF_vars(Next)

\* A BotLogger with up to MaxSubscribers handlers registered for 'log', and
\* up to MaxEmits calls of log().
InitEventBus ==
  /\ subscribers \in SeqsUpTo(HandlerKinds, MaxSubscribers)
  /\ NoEvents
  /\ NoProxies
  /\ PUBLISHER_URLS = <<>>
  /\ appPc = "logger"
  /\ isRunning = FALSE /\ repetitionsPerWallet = 1
  /\ wallets = <<>> /\ i = 0 /\ rep = 0 /\ suiActions = None
  /\ overallStatus = "Initializing..." /\ activeBots = 0
  /\ actionType = None /\ imageSource = None /\ additionalAddresses = <<>>
  /\ WorkflowIdle
  /\ trace = <<>> /\ invocations = <<>> /\ failedReps = {} /\ delaysThisWallet = 0
  /\ walletFile = NoFile
  /\ NoHistory

NextEventBus == Log

SpecEventBus == InitEventBus /\ [][NextEventBus]_vars

\* A BotLogger with the terminal UI attached, and up to MaxUpdates calls of
\* updateStatus().
InitStatus ==
  /\ subscribers = <<"ok">>
  /\ NoEvents
  /\ NoProxies
  /\ PUBLISHER_URLS = <<>>
  /\ appPc = "status"
  /\ isRunning = FALSE /\ repetitionsPerWallet = 1
  /\ wallets = <<>> /\ i = 0 /\ rep = 0 /\ suiActions = None
  /\ overallStatus = "Initializing..." /\ activeBots = 0
  /\ actionType = None /\ imageSource = None /\ additionalAddresses = <<>>
  /\ WorkflowIdle
  /\ trace = <<>> /\ invocations = <<>> /\ failedReps = {} /\ delaysThisWallet = 0
  /\ walletFile = NoFile
  /\ NoHistory

NextStatus == UpdateStatus

SpecStatus == InitStatus /\ [][NextStatus]_vars

\* The repetition prompt of initialize() on a loaded wallet file.
InitPrompt ==
  /\ appPc = "prompt"
  /\ isRunning = FALSE /\ repetitionsPerWallet = 1
  /\ wallets = <<"hex64">> /\ i = 0 /\ rep = 0 /\ suiActions = None
  /\ overallStatus = "Initializing..." /\ activeBots = 0
  /\ PUBLISHER_URLS = <<>>
  /\ actionType = None /\ imageSource = None /\ additionalAddresses = <<>>
  /\ WorkflowIdle
  /\ trace = <<>> /\ invocations = <<>> /\ failedReps = {} /\ delaysThisWallet = 0
  /\ walletFile = KeysFile
  /\ NoHistory
  /\ NoEvents /\ subscribers = <<>>
  /\ NoProxies

NextPrompt == AskRepetitions

SpecPrompt == InitPrompt /\ [][NextPrompt]_vars

\* The SuiActions constructor on each line of a wallet list of any
\* credentials.
InitKeypair ==
  /\ wallets \in SeqsUpTo(Credentials, MaxWallets)
  /\ appPc = "keys"
  /\ isRunning = FALSE /\ repetitionsPerWallet = 1
  /\ i = 0 /\ rep = 0 /\ suiActions = None
  /\ overallStatus = "Initializing..." /\ activeBots = 0
  /\ PUBLISHER_URLS = <<>>
  /\ actionType = None /\ imageSource = None /\ additionalAddresses = <<>>
  /\ WorkflowIdle
  /\ trace = <<>> /\ invocations = <<>> /\ failedReps = {} /\ delaysThisWallet = 0
  /\ walletFile = KeysFile
  /\ NoHistory
  /\ NoEvents /\ subscribers = <<>>
  /\ NoProxies

NextKeypair == NewSuiActions

SpecKeypair == InitKeypair /\ [][NextKeypair]_vars

\* One call of uploadBlob on the SuiActions of a resolved wallet whose
\* proxy manager has loaded a proxies.txt of up to MaxProxies entries.
InitRotatedUpload ==
  /\ proxies \in SeqsUpTo(ProxyPool, MaxProxies) \ {<<>>}
  /\ currentProxyIndex = 0
  /\ proxyPc = "idle" /\ inspected = 0 /\ proxyReturns = <<>>
  /\ PUBLISHER_URLS = [k \in 1..MaxPublishers |-> k]
  /\ appPc = "rotated"
  /\ isRunning = FALSE /\ repetitionsPerWallet = 1
  /\ wallets = <<"hex64">> /\ i = 0 /\ rep = 0
  /\ suiActions = initializeKeypair("hex64").address
  /\ overallStatus = "Initializing..." /\ activeBots = 0
  /\ actionType = None /\ additionalAddresses = <<>>
  /\ imageSource \in {"buffer", "url"}
  /\ wfPc = "uploadBlob"
  /\ addrIdx = 1 /\ ids = NoIds /\ blobId = None
  /\ result = NoResult /\ thrownError = None
  /\ attempt = 0 /\ shuffledPublishers = <<>> /\ lastError = NoError
  /\ receipt = NoTx /\ body = NoPut
  /\ trace = <<>>
  /\ invocations = <<>> /\ failedReps = {} /\ delaysThisWallet = 0
  /\ walletFile = KeysFile
  /\ NoHistory
  /\ NoEvents /\ subscribers = <<>>

NextRotatedUpload ==
  \/ ResolveImage
  \/ UploadAttempt
  \/ UploadRetryDelay

SpecRotatedUpload == InitRotatedUpload /\ [][NextRotatedUpload]_vars

\* ================================================================== claims
Resolves(k) == initializeKeypair(wallets[k + 1]).ok
AllCredentialsResolve == \A k \in 0..(totalWallets - 1) : Resolves(k)

IsPrefix(s, t) == Len(s) <= Len(t) /\ \A k \in 1..Len(s) : s[k] = t[k]

\* Wallet k (0-based), repetitions 1..R, wallet by wallet.
WalletMajor(W, R) == [k \in 1..(W * R) |-> <<(k - 1) \div R, ((k - 1) % R) + 1>>]

Running == appPc \notin {"constructed", "ready", "exited", "direct"}

\* C1: when every credential resolves, the workflow invocations made so far
\* are a prefix of the wallet-major sequence (wallet 0 repetitions 1..R, then
\* wallet 1, ...), and at Completed they are exactly all W*R of it, whichever
\* repetitions failed.
C1_WalletMajorInvocations ==
  (Running /\ AllCredentialsResolve) =>
     /\ IsPrefix(invocations, WalletMajor(totalWallets, repetitionsPerWallet))
     /\ appPc = "completed" =>
          /\ Len(invocations) = totalWallets * repetitionsPerWallet
          /\ invocations = WalletMajor(totalWallets, repetitionsPerWallet)

C1_Witness ==
  /\ appPc = "completed" /\ AllCredentialsResolve
  /\ totalWallets >= 2 /\ repetitionsPerWallet >= 2
  /\ failedReps # {}
  /\ Len(invocations) = totalWallets * repetitionsPerWallet

\* The wallet the history variables failedReps and delaysThisWallet are about.
historyWallet == IF appPc \in {"wallet", "completed"} THEN i - 1 ELSE i

\* C2: for every failed repetition r < R of a wallet, repetition r+1 of that
\* wallet has been invoked, or is the repetition the loop is about to start
\* (and starting it is enabled).
C2_FailedRepetitionDoesNotAbort ==
  Running =>
    \A r \in failedReps :
      r < repetitionsPerWallet =>
         \/ \E k \in 1..Len(invocations) : invocations[k] = <<historyWallet, r + 1>>
         \/ appPc = "repetition" /\ rep = r + 1 /\ ENABLED StartRepetition

C2_Witness ==
  /\ 1 \in failedReps /\ repetitionsPerWallet >= 2
  /\ appPc = "awaitWorkflow" /\ rep = 2
  /\ invocations[Len(invocations)] = <<i, 2>>

\* C3: a wallet whose credential does not resolve gets no workflow
\* invocation; the run never exits once it has wallets; and at Completed every
\* wallet whose credential resolves has had all its repetitions invoked,
\* whatever happened to the wallets before it.
C3_WalletFailureDoesNotAbort ==
  /\ \A k \in 1..Len(invocations) :
       invocations[k][1] \in 0..(totalWallets - 1) /\ Resolves(invocations[k][1])
  /\ appPc = "exited" => totalWallets = 0
  /\ appPc = "completed" =>
       \A w \in 0..(totalWallets - 1) :
         Resolves(w) =>
           \A r \in 1..repetitionsPerWallet :
             \E k \in 1..Len(invocations) : invocations[k] = <<w, r>>

C3_Witness ==
  /\ appPc = "completed"
  /\ totalWallets >= 2 /\ ~Resolves(0) /\ Resolves(1)
  /\ invocations[1] = <<1, 1>>

\* C4: when the repetition loop of a wallet is left after R repetitions,
\* exactly R-1 delays were waited for that wallet.
C4_DelaysBetweenRepetitions ==
  (appPc = "repetition" /\ rep > repetitionsPerWallet) =>
     delaysThisWallet = repetitionsPerWallet - 1

\* ------------------------------------------------------- workflow claims
IsTx(e, name) == e.kind = "tx" /\ e.tag = name
IsPut(e) == e.kind = "http" /\ e.tag = "PUT"
AnyTxFailed == \E k \in DOMAIN trace : trace[k].kind = "tx" /\ ~trace[k].ok
Submitted(name, a) == \E k \in DOMAIN trace : IsTx(trace[k], name) /\ trace[k].arg = a
Warned(a) == \E k \in DOMAIN trace : trace[k] = [LogEv("WARN") EXCEPT !.arg = a]

\* C5: a result is returned only when no submitted transaction failed, the
\* creation and publish transactions succeeded and the upload produced the
\* blob id of the result; and whenever a transaction failed or an error was
\* raised, no result exists and the workflow has thrown that error.
C5_ResultOnlyAfterAllSteps ==
  /\ result # NoResult =>
       /\ ~AnyTxFailed
       /\ \E k \in DOMAIN trace : trace[k] = TxEv("create", 0, TRUE)
       /\ \E k \in DOMAIN trace : trace[k] = TxEv("publish", 0, TRUE)
       /\ \E k \in DOMAIN trace : IsPut(trace[k]) /\ trace[k].ok
       /\ truthy(blobId) /\ result.blobId = blobId
       /\ ~idMissing(result.shared) /\ ~idMissing(result.entry)
       /\ thrownError = None /\ wfPc = "returned"
  /\ (AnyTxFailed \/ thrownError # None) =>
       (result = NoResult /\ wfPc = "thrown" /\ thrownError # None)

C5_Witness ==
  /\ wfPc = "returned" /\ result # NoResult
  /\ Len(additionalAddresses) >= 1 /\ Submitted("add", 1)

\* The place of a workflow step in the order of its workflow.
StepRank(e) ==
  CASE IsTx(e, "create") -> 0
    [] IsTx(e, "add") -> 1 + e.arg
    [] e = CallEv("uploadBlob") -> 2 + Len(additionalAddresses)
    [] IsTx(e, "publish") -> 3 + Len(additionalAddresses)

IsStep(e) == e.kind = "tx" \/ e = CallEv("uploadBlob")

StepsInOrder ==
  LET steps == SelectSeq(trace, IsStep) IN
  \A k \in 1..(Len(steps) - 1) : StepRank(steps[k]) < StepRank(steps[k + 1])

PublishAfterUpload ==
  \A p \in DOMAIN trace :
    IsTx(trace[p], "publish") =>
      /\ truthy(blobId)
      /\ \E h \in 1..(p - 1) : IsPut(trace[h]) /\ trace[h].ok

\* C6: in the allowlist workflow the steps occur in the order create, add own
\* address, add additional addresses by rising index, upload, publish; an
\* upload starts only after a successful create and a successful add of the
\* own address; a publish is submitted only after a successful PUT gave a
\* blob id.
C6_AllowlistStepOrder ==
  actionType = "allowlist" =>
    /\ StepsInOrder
    /\ \A u \in DOMAIN trace :
         trace[u] = CallEv("uploadBlob") =>
           \E a \in 1..(u - 1) :
             /\ trace[a] = TxEv("add", 0, TRUE)
             /\ \E c \in 1..(a - 1) : trace[c] = TxEv("create", 0, TRUE)
    /\ PublishAfterUpload

C6_Witness ==
  /\ actionType = "allowlist" /\ wfPc = "returned"
  /\ Len(additionalAddresses) = 2 /\ Submitted("add", 1) /\ Submitted("add", 2)
  /\ Submitted("publish", 0)

\* C7: once the add transaction of an additional address has failed, the
\* workflow has thrown without a result and nothing follows it: no further
\* transaction, no upload call, no HTTP request.
C7_FailedAddAborts ==
  actionType = "allowlist" =>
    \A k \in DOMAIN trace :
      (IsTx(trace[k], "add") /\ trace[k].arg >= 1 /\ ~trace[k].ok) =>
         /\ wfPc = "thrown" /\ result = NoResult
         /\ \A j \in (k + 1)..Len(trace) : trace[j].kind \notin {"tx", "call", "http"}

C7_Witness ==
  /\ wfPc = "thrown" /\ Len(additionalAddresses) = 2
  /\ \E k \in DOMAIN trace : IsTx(trace[k], "add") /\ trace[k].arg = 1 /\ ~trace[k].ok
  /\ ~Submitted("add", 2)
  /\ additionalAddresses[2].type = "string" /\ additionalAddresses[2].val # ""

EmptyOrNonString(a) == a.type # "string" \/ a.val = ""

\* The events about the additional address of index e.arg >= 1.
IsEntryEvent(e) == e.kind \in {"log", "tx"} /\ e.arg >= 1

\* C8: an additional address that is empty or not a string is never
\* submitted; once the loop has passed it a WARN event for it exists; the
\* state after a skip is not a thrown workflow; every entry the loop has
\* passed was either submitted or warned about, in list order.
C8_InvalidEntrySkipped ==
  actionType = "allowlist" =>
    /\ \A k \in 1..Len(additionalAddresses) :
         EmptyOrNonString(additionalAddresses[k]) =>
           /\ ~Submitted("add", k)
           /\ k < addrIdx => Warned(k)
    /\ \A k \in 1..Len(additionalAddresses) :
         k < addrIdx => (Submitted("add", k) \/ Warned(k))
    /\ (Len(trace) > 0 /\ trace[Len(trace)].kind = "log" /\ trace[Len(trace)].arg >= 1) =>
         (wfPc # "thrown" /\ thrownError = None)
    /\ LET entries == SelectSeq(trace, IsEntryEvent) IN
         \A k \in 1..(Len(entries) - 1) : entries[k].arg < entries[k + 1].arg

C8_Witness ==
  /\ actionType = "allowlist" /\ wfPc = "returned"
  /\ Len(additionalAddresses) = 2
  /\ EmptyOrNonString(additionalAddresses[1]) /\ Warned(1)
  /\ Submitted("add", 2)

\* A well-formed address is 0x followed by hex digits.
wellFormedAddress(addr) == addr.type = "string" /\ addr.val \in {"0xaa"}

\* C9: a string entry that is not a well-formed address is never submitted
\* as an add-address transaction.
C9_MalformedStringSkipped ==
  actionType = "allowlist" =>
    \A k \in 1..Len(additionalAddresses) :
      (additionalAddresses[k].type = "string" /\ ~wellFormedAddress(additionalAddresses[k]))
        => ~Submitted("add", k)

\* C10: in the subscription workflow the steps occur in the order create,
\* upload, publish and no add is submitted; an upload starts only after a
\* successful create whose two object ids were resolved; a publish is
\* submitted only after a successful PUT gave a blob id.
C10_SubscriptionStepOrder ==
  actionType = "subscription" =>
    /\ StepsInOrder
    /\ \A k \in DOMAIN trace : ~IsTx(trace[k], "add")
    /\ \A u \in DOMAIN trace :
         trace[u] = CallEv("uploadBlob") =>
           /\ \E c \in 1..(u - 1) : trace[c] = TxEv("create", 0, TRUE)
           /\ ~idMissing(ids.shared) /\ ~idMissing(ids.entry)
    /\ PublishAfterUpload

C10_Witness ==
  /\ actionType = "subscription" /\ wfPc = "returned" /\ result # NoResult
  /\ Submitted("publish", 0)


\* The submissions recorded so far, and whether the last step was one of name.
Submissions == SelectSeq(trace, LAMBDA e : e.kind = "tx")
JustSubmitted(name) ==
  /\ receipt # NoTx
  /\ LET s == Submissions IN Len(s) > 0 /\ s[Len(s)].tag = name

\* The non-empty ids of the objects a receipt lists as created with owner.
CreatedIdsOwnedBy(r, owner) ==
  {r.objectChanges[k].objectId : k \in {j \in DOMAIN r.objectChanges :
       /\ r.objectChanges[j].type = "created"
       /\ r.objectChanges[j].owner = owner
       /\ r.objectChanges[j].objectId # ""}}

LaterStepRan ==
  \E k \in DOMAIN trace :
    \/ IsTx(trace[k], "add") \/ IsTx(trace[k], "publish")
    \/ trace[k].kind \in {"call", "http"}

\* C11: right after a creation step that did not throw, the entry id is the
\* id of an object the receipt lists as created and owned by the wallet's
\* address, and the shared id the id of one it lists as created and shared;
\* a receipt that lacks either one makes the step throw with no ids kept;
\* and an add, an upload or a publish is only ever seen with both ids set.
C11_IdsFromCreatedObjects ==
  /\ JustSubmitted("create") =>
       /\ wfPc # "thrown" =>
            /\ ids.entry \in CreatedIdsOwnedBy(receipt, suiActions)
            /\ ids.shared \in CreatedIdsOwnedBy(receipt, "Shared")
       /\ (\/ CreatedIdsOwnedBy(receipt, suiActions) = {}
           \/ CreatedIdsOwnedBy(receipt, "Shared") = {}) =>
            /\ wfPc = "thrown" /\ ids = NoIds
            /\ ~LaterStepRan
  /\ LaterStepRan => ~idMissing(ids.entry) /\ ~idMissing(ids.shared)

\* A creation whose receipt lists the shared object before the entry object.
C11_Witness ==
  /\ JustSubmitted("create") /\ wfPc # "thrown"
  /\ receipt.objectChanges[1].owner = "Shared"
  /\ ids.entry = "obj_entry" /\ ids.shared = "obj_shared"


\* The executeTransaction call of the last step returned to its caller: the
\* caller went on, or threw the error it raises itself after the return.
ExecuteReturned == wfPc # "thrown" \/ thrownError = "ObjectIdResolutionFailed"

\* C12: the executeTransaction call of a step returns exactly when the chain
\* client answered with the explicit status "success"; on any other status,
\* an absent status or a thrown submission the step ends in a thrown
\* transaction-failed error.
C12_ReturnsIffExplicitSuccess ==
  receipt # NoTx =>
    /\ ExecuteReturned <=> (~receipt.threw /\ receipt.status = "success")
    /\ ~ExecuteReturned => (wfPc = "thrown" /\ thrownError = "TransactionFailed")

\* A response without effects.status made the step throw.
C12_Witness ==
  /\ receipt # NoTx /\ ~receipt.threw /\ receipt.status = "absent"
  /\ wfPc = "thrown" /\ thrownError = "TransactionFailed"


\* C13: every submission recorded stands right after the INFO event of its
\* own executeTransaction call, no transaction (step and address index) is
\* submitted twice, and a failed submission is the last one of the call.
C13_SubmittedExactlyOnce ==
  /\ \A k \in DOMAIN trace :
       trace[k].kind = "tx" => (k > 1 /\ trace[k - 1] = LogEv("INFO"))
  /\ LET s == Submissions IN
     \A b \in DOMAIN s : \A a \in 1..(b - 1) :
       s[a].ok /\ <<s[a].tag, s[a].arg>> # <<s[b].tag, s[b].arg>>

\* The add for the second additional address failed after three successful
\* submissions.
C13_Witness ==
  /\ wfPc = "thrown" /\ thrownError = "TransactionFailed"
  /\ Submissions = <<TxEv("create", 0, TRUE), TxEv("add", 0, TRUE), TxEv("add", 1, TRUE),
                      TxEv("add", 2, FALSE)>>


\* C14: every submission is preceded by the INFO event of its call and
\* followed at once by the outcome event of that call: SUCCESS when the chain
\* succeeded, ERROR when it did not.  After a failed submission the trace
\* holds that ERROR and the ERROR of the workflow's catch and no SUCCESS.
C14_InfoThenOneOutcome ==
  \A k \in DOMAIN trace :
    trace[k].kind = "tx" =>
      /\ k > 1 /\ trace[k - 1] = LogEv("INFO")
      /\ k < Len(trace)
      /\ trace[k].ok => trace[k + 1] = LogEv("SUCCESS")
      /\ ~trace[k].ok =>
           /\ Len(trace) = k + 2
           /\ trace[k + 1] = LogEv("ERROR") /\ trace[k + 2] = LogEv("ERROR")

\* A publish that the chain rejected, after successful earlier steps.
C14_Witness ==
  /\ wfPc = "thrown" /\ blobId # None
  /\ Len(trace) > 2 /\ trace[Len(trace) - 2] = TxEv("publish", 0, FALSE)


\* The PUT requests of the upload call so far, in order.
Puts == SelectSeq(trace, IsPut)

\* C15: the shuffled list is a permutation of the configured publishers, and
\* the a-th PUT of the call (a counted from 1) went to entry
\* ((a-1) mod K) + 1 of the shuffled list as it is now, for every PUT made so
\* far; so attempt K+1 is sent to the first shuffled publisher again.
C15_RoundRobinOverShuffle ==
  LET K == Len(shuffledPublishers) IN
  /\ Len(Puts) > 0 =>
       /\ K = Len(PUBLISHER_URLS)
       /\ shuffledPublishers \in Permutations_(PUBLISHER_URLS)
  /\ \A a \in DOMAIN Puts : Puts[a].arg = shuffledPublishers[((a - 1) % K) + 1]

\* Attempt K+1 of a call whose shuffle put another publisher first.
C15_Witness ==
  /\ Len(shuffledPublishers) > 0 /\ shuffledPublishers[1] # PUBLISHER_URLS[1]
  /\ Len(Puts) = Len(shuffledPublishers) + 1
  /\ Puts[Len(Puts)].arg = shuffledPublishers[1]


\* The ids a publisher answer carries, and the waits between attempts so far.
BodyIds(b) == {b.newlyCreated, b.alreadyCertified, b.blobId} \ {None, "", "unsent"}
Accepted(b) == b # NoPut /\ ~b.threw /\ BodyIds(b) # {}
RetryDelays == SelectSeq(trace, LAMBDA e : e.kind = "delay" /\ e.tag = "retry")

\* C16: the call returns exactly in the step whose answer carries a
\* non-empty blob id in one of the accepted shapes; at that point the number
\* of PUT requests equals the attempt number a, a-1 retry waits were made
\* (none when a = 1), the blob id kept is one the answer carries, and no
\* earlier PUT was followed by a SUCCESS event.
C16_StopsAtFirstSuccess ==
  /\ wfPc = "returned" => Accepted(body)
  /\ Accepted(body) =>
       /\ wfPc = "returned"
       /\ Len(Puts) = attempt
       /\ Len(RetryDelays) = attempt - 1
       /\ blobId \in BodyIds(body)
       /\ \A k \in 1..(Len(trace) - 2) :
            IsPut(trace[k]) => trace[k + 1] # LogEv("SUCCESS")

\* The third attempt was the first accepted one.
C16_Witness ==
  /\ Accepted(body) /\ wfPc = "returned"
  /\ attempt = 3 /\ Len(Puts) = 3 /\ Len(RetryDelays) = 2


\* C17: when the call has thrown for exhausted retries (the error of line
\* 335, whose message is built from lastError), exactly
\* MAX_BLOB_UPLOAD_RETRIES PUT requests were made, none of them accepted, and
\* lastError is the error of the last of them: its attempt number, its
\* publisher and the kind of failure of the last answer.
C17_ExhaustedCarriesLastError ==
  thrownError = "BlobUploadExhausted" =>
    /\ Len(Puts) = MAX_BLOB_UPLOAD_RETRIES
    /\ attempt = MAX_BLOB_UPLOAD_RETRIES
    /\ body # NoPut /\ ~Accepted(body)
    /\ \A k \in 1..(Len(trace) - 1) : IsPut(trace[k]) => trace[k + 1] # LogEv("SUCCESS")
    /\ lastError.attempt = MAX_BLOB_UPLOAD_RETRIES
    /\ lastError.publisher = Puts[MAX_BLOB_UPLOAD_RETRIES].arg
    /\ lastError.kind = (IF body.threw THEN "http" ELSE "invalidResponse")

\* All attempts failed, the first with a thrown request, the last with an
\* answer that carries no blob id.
C17_Witness ==
  /\ wfPc = "thrown" /\ thrownError = "BlobUploadExhausted"
  /\ ~Puts[1].ok /\ ~body.threw /\ lastError.kind = "invalidResponse"


\* The PUT requests and the retry waits of the call, in order.
PutsAndDelays == SelectSeq(trace, LAMBDA e : IsPut(e) \/ (e.kind = "delay" /\ e.tag = "retry"))

\* C18: PUT requests and retry waits alternate, starting with a PUT; nothing
\* follows a PUT that was answered with SUCCESS; there are at most 2R-1 of
\* them, so no wait follows attempt R, and a call that exhausted its R
\* attempts has waited R-1 times and ends with a PUT.  The waits are
\* non-decreasing and lie between BLOB_UPLOAD_RETRY_DELAY_MS and
\* MAX_BACKOFF_DELAY_MS.
C18_DelaysOnlyBetweenAttempts ==
  /\ Len(PutsAndDelays) <= 2 * MAX_BLOB_UPLOAD_RETRIES - 1
  /\ \A k \in DOMAIN PutsAndDelays :
       IF k % 2 = 1 THEN IsPut(PutsAndDelays[k]) ELSE PutsAndDelays[k].kind = "delay"
  /\ \A k \in 1..(Len(trace) - 1) :
       (IsPut(trace[k]) /\ trace[k + 1] = LogEv("SUCCESS")) => Len(trace) = k + 1
  /\ thrownError = "BlobUploadExhausted" =>
       /\ Len(RetryDelays) = MAX_BLOB_UPLOAD_RETRIES - 1
       /\ IsPut(PutsAndDelays[Len(PutsAndDelays)])
  /\ \A k \in DOMAIN RetryDelays :
       /\ RetryDelays[k].arg >= BLOB_UPLOAD_RETRY_DELAY_MS
       /\ RetryDelays[k].arg <= MAX_BACKOFF_DELAY_MS
       /\ k > 1 => RetryDelays[k - 1].arg <= RetryDelays[k].arg

\* All attempts failed; four waits were made.
C18_Witness ==
  /\ thrownError = "BlobUploadExhausted"
  /\ Len(RetryDelays) = MAX_BLOB_UPLOAD_RETRIES - 1
  /\ Len(Puts) = MAX_BLOB_UPLOAD_RETRIES


Min(a, b) == IF a <= b THEN a ELSE b

\* C19: the wait after failed attempt a is
\* min(BLOB_UPLOAD_RETRY_DELAY_MS * 2^(a-1), MAX_BACKOFF_DELAY_MS).
C19_ExponentialBackoff ==
  \A a \in DOMAIN RetryDelays :
    RetryDelays[a].arg = Min(BLOB_UPLOAD_RETRY_DELAY_MS * 2 ^ (a - 1), MAX_BACKOFF_DELAY_MS)


Present(v) == v \notin {None, ""}

\* C20: after an attempt whose request was answered, the blob id kept is the
\* first present and non-empty one of newlyCreated.blobObject.blobId,
\* alreadyCertified.blobId and blobId, in that order; an answer with none of
\* them leaves no blob id, is recorded as the failed attempt it was and does
\* not return; and the blob id is never the empty string.
C20_BlobIdPriority ==
  /\ blobId # ""
  /\ wfPc = "returned" => Present(blobId)
  /\ (body # NoPut /\ ~body.threw) =>
       IF Present(body.newlyCreated) THEN blobId = body.newlyCreated
       ELSE IF Present(body.alreadyCertified) THEN blobId = body.alreadyCertified
       ELSE IF Present(body.blobId) THEN blobId = body.blobId
       ELSE /\ blobId = None /\ wfPc # "returned"
            /\ lastError.kind = "invalidResponse" /\ lastError.attempt = attempt
            /\ Len(Puts) = attempt

\* An answer with an empty newlyCreated id, and different ids in the other
\* two shapes.
C20_Witness ==
  /\ body # NoPut /\ ~body.threw
  /\ body.newlyCreated = "" /\ body.alreadyCertified = "blobB" /\ body.blobId = "blobA"
  /\ blobId = "blobB" /\ wfPc = "returned"


\* The events of the attempt loop: the trace from the first WAIT on (image
\* resolution emits no WAIT).
AttemptLoopEvents ==
  IF \E k \in DOMAIN trace : trace[k] = LogEv("WAIT")
    THEN SubSeq(trace, CHOOSE k \in DOMAIN trace :
                         /\ trace[k] = LogEv("WAIT")
                         /\ \A j \in 1..(k - 1) : trace[j] # LogEv("WAIT"),
                Len(trace))
    ELSE <<>>

\* C21: in the attempt loop every PUT stands right after a WAIT event; a PUT
\* is followed at once by SUCCESS or by the ERROR of its failed attempt (after
\* a WARN when the answer carried no blob id), so the ERROR precedes the next
\* attempt; the last answer, when it was not accepted, is followed by ERROR;
\* and the loop has emitted one SUCCESS when the call returned a blob id and
\* none otherwise.
C21_UploadEvents ==
  LET ev == AttemptLoopEvents
      successes == SelectSeq(ev, LAMBDA e : e = LogEv("SUCCESS"))
  IN
  /\ \A k \in DOMAIN ev :
       IsPut(ev[k]) =>
         /\ k > 1 /\ ev[k - 1] = LogEv("WAIT")
         /\ k < Len(ev)
         /\ \/ ev[k + 1] = LogEv("SUCCESS") /\ k + 1 = Len(ev)
            \/ ev[k + 1] = LogEv("ERROR")
            \/ ev[k + 1] = LogEv("WARN") /\ k + 1 < Len(ev) /\ ev[k + 2] = LogEv("ERROR")
  /\ (body # NoPut /\ ~Accepted(body)) => ev[Len(ev)] # LogEv("SUCCESS")
  /\ Len(successes) = (IF wfPc = "returned" /\ Present(blobId) THEN 1 ELSE 0)
  /\ wfPc = "returned" <=> Present(blobId)

\* The second attempt of a call on an image URL was accepted: the trace
\* holds the SUCCESS of the fetch and one SUCCESS of the loop.
C21_Witness ==
  /\ imageSource = "url" /\ wfPc = "returned" /\ attempt = 2
  /\ Len(SelectSeq(trace, LAMBDA e : e = LogEv("SUCCESS"))) = 2
  /\ Len(SelectSeq(AttemptLoopEvents, LAMBDA e : e = LogEv("ERROR"))) = 1


\* C22: with no publisher configured no wallet is processed: no signing
\* identity is derived, no workflow is invoked and no transaction submitted.
C22_NoPublishersHaltsRun ==
  Len(PUBLISHER_URLS) = 0 =>
    /\ suiActions = None
    /\ invocations = <<>>
    /\ \A k \in DOMAIN trace : trace[k].kind # "tx"


\* wallets.txt was looked at and was missing, unreadable or without a key.
NoCredentialFound ==
  /\ walletFile # NoFile
  /\ \/ ~walletFile.exists \/ ~walletFile.readable
     \/ \A k \in DOMAIN walletFile.lines : walletFile.lines[k] \in {"", "#comment"}

\* C23: when wallets.txt is missing, unreadable or holds no key, the
\* application has exited in initialize(): the repetition prompt was not
\* asked, the status never left "Initializing...", isRunning was never set,
\* no signing identity was derived and no workflow invoked.
C23_NoWalletsHaltsAtStartup ==
  NoCredentialFound =>
    /\ appPc = "exited" /\ wallets = <<>>
    /\ \A k \in DOMAIN trace : trace[k] # CallEv("askQuestion")
    /\ ~isRunning /\ overallStatus = "Initializing..."
    /\ suiActions = None /\ invocations = <<>>

\* A wallets.txt of two lines, a comment and a blank one.
C23_Witness ==
  /\ appPc = "exited"
  /\ walletFile = [exists |-> TRUE, readable |-> TRUE, lines |-> <<"#comment", "">>]


\* An entry in one of the supported formats: a URL with scheme, host:port,
\* user:pass@host:port or host:port:user:pass.
ValidEntry(e) ==
  \/ e.scheme
  \/ Len(e.parts) \in {2, 4}
  \/ Len(e.parts) = 3 /\ e.atParts = 2

AllValid == \A k \in DOMAIN proxies : ValidEntry(proxies[k])
AllInvalid == \A k \in DOMAIN proxies : ~ValidEntry(proxies[k])

\* C24: on a non-empty list of valid entries, the k-th call (from 1) of
\* getNextProxyUrl returned the URL of entry (k-1) mod N after reading that
\* one entry, and between calls the cursor stands at (number of calls) mod N.
C24_RoundRobin ==
  (Len(proxies) > 0 /\ AllValid) =>
    /\ \A k \in DOMAIN proxyReturns :
         /\ proxyReturns[k].index = (k - 1) % Len(proxies)
         /\ proxyReturns[k].url # NoProxy
         /\ proxyReturns[k].inspected = 1
    /\ proxyPc = "idle" => currentProxyIndex = Len(proxyReturns) % Len(proxies)

\* Six calls on three valid entries returned entries 0, 1, 2, 0, 1, 2.
C24_Witness ==
  /\ Len(proxies) = 3 /\ AllValid
  /\ Len(proxyReturns) = 6
  /\ [k \in 1..6 |-> proxyReturns[k].index] = <<0, 1, 2, 0, 1, 2>>


\* C25: on a non-empty list without a valid entry a call of getNextProxyUrl
\* never reads more than N entries: while it runs it has read fewer than N,
\* and every call that has returned gave null after at most N entries.
C25_AllInvalidTerminates ==
  (Len(proxies) > 0 /\ AllInvalid) =>
    /\ inspected <= Len(proxies)
    /\ proxyPc = "inspect" => inspected < Len(proxies)
    /\ \A k \in DOMAIN proxyReturns :
         /\ proxyReturns[k].url = NoProxy
         /\ proxyReturns[k].inspected <= Len(proxies)

\* A call on three invalid entries read all three and returned null.
C25_Witness ==
  /\ Len(proxies) = 3 /\ AllInvalid
  /\ Len(proxyReturns) > 0
  /\ proxyReturns[1] = [index |-> 2, url |-> NoProxy, inspected |-> 3]


\* C26: a call of getNextProxyUrl returned null only on an empty list or a
\* list without a valid entry.
C26_NullOnlyWithoutValidEntry ==
  \A k \in DOMAIN proxyReturns :
    proxyReturns[k].url = NoProxy => (Len(proxies) = 0 \/ AllInvalid)

\* ------------------------------------------------------- EventBus claims
\* The last min(n, maxHistory) of the events 1..n, oldest first.
MostRecent(n) ==
  LET kept == Min(n, maxHistory) IN [k \in 1..kept |-> n - kept + k]

\* C27: the history never holds more than its capacity (1000) entries, and
\* after n calls of log() it holds exactly the most recent min(n, capacity)
\* events in the order of their emission, the oldest discarded first.
C27_RingBuffer ==
  /\ Len(logHistory) <= maxHistory
  /\ logHistory = MostRecent(emitted)

\* After 1500 emits the history holds the events 501..1500.
C27_Witness ==
  /\ emitted = 1500
  /\ Len(logHistory) = 1000
  /\ logHistory[1] = 501 /\ logHistory[1000] = 1500


\* C28: a handler that throws does not keep the other handlers from
\* receiving the event and does not make the emit fail for the producer:
\* after any call of log(), every registered handler has been invoked and
\* the call has returned without throwing.
C28_SubscriberFailureIsolated ==
  emitted > 0 => (lastEmit.ran = Len(subscribers) /\ ~lastEmit.threw)


\* The position in statusUpdates of the last update that carried field f,
\* 0 when none did.
LastCarrying(f) ==
  LET carrying == {k \in 1..Len(statusUpdates) : f \in DOMAIN statusUpdates[k]} IN
  IF carrying = {} THEN 0 ELSE CHOOSE k \in carrying : \A j \in carrying : j <= k

\* C29: status updates are merged by field: after any sequence of updates,
\* each field of the snapshot holds the value of the most recent update that
\* carried it, its initial value when none did (so an update leaves alone the
\* fields it does not mention), and the updates add nothing to the log
\* history.
C29_StatusMergedByField ==
  /\ DOMAIN currentStatus = DOMAIN InitialStatus
  /\ \A f \in DOMAIN InitialStatus :
       currentStatus[f] = IF LastCarrying(f) = 0 THEN InitialStatus[f]
                          ELSE statusUpdates[LastCarrying(f)][f]
  /\ logHistory = <<>> /\ emitted = 0

\* Two updates: the second carries overallStatus only, and activeBots keeps
\* the value of the first.
C29_Witness ==
  /\ Len(statusUpdates) = 2
  /\ DOMAIN statusUpdates[1] = {"activeBots", "overallStatus"}
  /\ statusUpdates[1].activeBots = 1
  /\ DOMAIN statusUpdates[2] = {"overallStatus"}
  /\ currentStatus.activeBots = 1
  /\ currentStatus.overallStatus = statusUpdates[2].overallStatus
  /\ currentStatus.overallStatus # statusUpdates[1].overallStatus
  /\ currentStatus.loadedWallet = "N/A"


\* ------------------------------------------------------ termination claims
Completed == appPc = "completed" /\ overallStatus = "Completed" /\ ~isRunning

\* C30: with every transaction, upload attempt and delay terminating, a run
\* that enters Running eventually reaches Completed (overallStatus
\* 'Completed', isRunning false), whatever failed on the way: the run does
\* not stay Running for ever, and it leaves Running only into Completed.  In
\* Completed nothing is left to run: no workflow is invoked afterwards.
C30_RunReachesCompleted ==
  /\ []<>(~isRunning)
  /\ [][(isRunning /\ ~isRunning') => Completed']_vars
  /\ [](Completed => ~ENABLED Next)

\* A completed run of two wallets in which the first credential did not
\* resolve and both repetitions of the second wallet failed.
C30_Witness ==
  /\ Completed
  /\ totalWallets = 2 /\ ~Resolves(0) /\ Resolves(1)
  /\ repetitionsPerWallet = 2
  /\ invocations = <<<<1, 1>>, <<1, 2>>>>
  /\ failedReps = {1, 2}


\* --------------------------------------------------- error containment claims
ErrorLogs(events) == Len(SelectSeq(events, LAMBDA e : e = LogEv("ERROR")))

\* The step in which the catch of a repetition handles what the workflow threw.
TaskErrorCaught == appPc = "awaitWorkflow" /\ wfPc = "thrown" /\ appPc' # appPc

\* The step in which the catch of a wallet handles what the constructor threw.
WalletErrorCaught ==
  appPc = "wallet" /\ i < totalWallets /\ ~Resolves(i) /\ (i' # i \/ appPc' # appPc)

\* C31: every error caught at the repetition boundary or at the wallet
\* boundary produces an ERROR event of the orchestrator before the run goes
\* on with the next repetition or the next wallet, and the error does not
\* leave the run loop.
C31_CaughtErrorsLogged ==
  [][ /\ TaskErrorCaught =>
           /\ trace' = Append(trace, LogEv("ERROR"))
           /\ appPc' = "repetition" /\ rep' = rep + 1 /\ i' = i
      /\ WalletErrorCaught =>
           /\ ErrorLogs(trace') = 2
           /\ appPc' \in {"wallet", "completed"} /\ i' = i + 1
    ]_vars

\* The second wallet goes on to repetition 2 after the error of repetition 1
\* was caught and logged; the credential of the first wallet did not resolve.
C31_Witness ==
  /\ appPc = "repetition" /\ i = 1 /\ rep = 2
  /\ ~Resolves(0) /\ failedReps = {1}
  /\ trace[Len(trace)] = LogEv("ERROR")


\* ------------------------------------------------------------ prompt claims
\* What the prompt is to yield for an input, by the kind of text typed.
ConfiguredRepetitions(input) ==
  CASE input.text \in {"blank", "word", "readError"} -> 1
    [] input.text \in {"digits", "digitsThenWord"} /\ input.num <= 0 -> 1
    [] OTHER -> input.num

\* C34: the configured repetitions-per-wallet is always a positive integer:
\* the operator's number when the input parses to an integer greater than 0,
\* and 1 when the input is blank, not a number, zero or negative, or when
\* reading the input fails.
C34_RepetitionsPositive ==
  /\ repetitionsPerWallet \in Nat \ {0}
  /\ appPc = "prompted" => repetitionsPerWallet = ConfiguredRepetitions(repeatInput)

\* "0" was typed and one repetition is configured.
C34_Witness ==
  /\ appPc = "prompted"
  /\ repeatInput.text = "digits" /\ repeatInput.num = 0
  /\ repetitionsPerWallet = 1


\* -------------------------------------------------------- credential claims
\* The first encoding, in the order of the claim, that credential c matches.
FirstMatch(c) ==
  LET t == CredentialTable[c] IN
  CASE t.sui -> "suiprivkey"
    [] ~t.sui /\ t.b64len44 /\ t.b64bytes = 32 -> "base64"
    [] ~t.sui /\ ~(t.b64len44 /\ t.b64bytes = 32) /\ t.hex64 -> "hex"
    [] OTHER -> "mnemonic"

Rejected == SelectSeq(keypairs, LAMBDA kp : ~kp.ok)

\* C35: a credential is resolved by the first encoding it matches, in the
\* order prefixed private key, 44-character base64 of 32 bytes, 64-digit hex,
\* mnemonic; a failure is raised by that stage, as one error, and no later
\* stage is tried.
C35_FirstMatchWins ==
  /\ \A k \in 1..Len(keypairs) :
       /\ keypairs[k].stage = FirstMatch(wallets[k])
       /\ keypairs[k].ok = CredentialTable[wallets[k]].libOk
  /\ ErrorLogs(trace) = Len(Rejected)
  /\ Len(trace) = Len(keypairs)

\* A prefixed key of 44 base64 characters fails at the prefix stage and is
\* not tried as base64; a base64 key resolves at the base64 stage.
C35_Witness ==
  /\ Len(keypairs) = 2
  /\ wallets = <<"suiprivkey_len44", "base64_32">>
  /\ keypairs[1] = [ok |-> FALSE, stage |-> "suiprivkey", address |-> None]
  /\ keypairs[2].ok /\ keypairs[2].stage = "base64"
  /\ trace = <<LogEv("ERROR"), LogEv("INFO")>>


\* --------------------------------------------------- image resolution claims
Gets == SelectSeq(trace, LAMBDA e : e.kind = "http" /\ e.tag = "GET")
Reads == SelectSeq(trace, LAMBDA e : e.kind = "read")

IsResolution(e) == e.kind = "read" \/ (e.kind = "http" /\ e.tag = "GET")

\* The GET and the file read come before every PUT.
ResolutionBeforePuts ==
  \A a, b \in DOMAIN trace : (IsResolution(trace[a]) /\ IsPut(trace[b])) => a < b

ResolutionErrors ==
  {"ImageFetchFailed", "LocalImageNotFound", "LocalImageReadFailed", "InvalidImageSource"}

\* C36: the content is resolved before any upload attempt: a buffer is taken
\* as it is, a string matching an http(s) URL is fetched by one GET, any other
\* string is read as a local file; when the fetch or the read fails, or the
\* source is neither buffer nor string, the call fails with no PUT, and a
\* file that is not found fails with an error of its own.
C36_ResolvedBeforeUpload ==
  wfPc # "uploadBlob" =>
    /\ Len(Gets) = (IF imageSource = "url" THEN 1 ELSE 0)
    /\ Len(Reads) = (IF imageSource = "path" THEN 1 ELSE 0)
    /\ imageSource = "url" => trace[3] = Gets[1]
    /\ imageSource = "path" => trace[3] = Reads[1]
    /\ ResolutionBeforePuts
    /\ LET failed == \/ imageSource = "url" /\ ~Gets[1].ok
                     \/ imageSource = "path" /\ ~Reads[1].ok
                     \/ imageSource = "other"
       IN /\ failed <=> thrownError \in ResolutionErrors
          /\ failed => wfPc = "thrown" /\ Len(Puts) = 0 /\ attempt = 0
    /\ thrownError = "ImageFetchFailed" <=> (imageSource = "url" /\ ~Gets[1].ok)
    /\ thrownError = "LocalImageNotFound" <=>
         (imageSource = "path" /\ Reads[1].tag = "ENOENT")
    /\ thrownError = "LocalImageReadFailed" <=>
         (imageSource = "path" /\ Reads[1].tag = "error")
    /\ thrownError = "InvalidImageSource" <=> imageSource = "other"

\* The local file does not exist: the call has thrown the error of a missing
\* file without a PUT.
C36_Witness ==
  /\ imageSource = "path" /\ wfPc = "thrown"
  /\ thrownError = "LocalImageNotFound"
  /\ Len(Reads) = 1 /\ Reads[1].tag = "ENOENT"
  /\ Len(Puts) = 0


\* ------------------------------------------------------ proxy cursor claims
\* The entries read by the first k calls of getNextProxyUrl that returned.
RECURSIVE EntriesRead(_)
EntriesRead(k) == IF k = 0 THEN 0 ELSE EntriesRead(k - 1) + proxyReturns[k].inspected

\* C37 as stated: each call of getNextProxyUrl on a non-empty list advances
\* the cursor by exactly one position modulo the list length, whether or not
\* the entry under the cursor is valid; so between calls the cursor stands at
\* (number of calls) mod N.
C37_OneAdvancePerCall ==
  (Len(proxies) > 0 /\ proxyPc = "idle") =>
    currentProxyIndex = Len(proxyReturns) % Len(proxies)

\* C37 amended: each call on a non-empty list advances the cursor by exactly
\* one position modulo the list length for each entry it reads: by one when
\* the entry under the cursor is valid, and by one more for each unsupported
\* entry it skips.
C37_OneAdvancePerEntryRead ==
  Len(proxies) > 0 =>
    /\ currentProxyIndex =
         (EntriesRead(Len(proxyReturns)) + (IF proxyPc = "inspect" THEN inspected ELSE 0))
           % Len(proxies)
    /\ \A k \in DOMAIN proxyReturns :
         LET start == EntriesRead(k - 1) % Len(proxies) IN
         /\ proxyReturns[k].inspected >= 1
         /\ proxyReturns[k].index = (start + proxyReturns[k].inspected - 1) % Len(proxies)
         /\ ValidEntry(proxies[start + 1]) => proxyReturns[k].inspected = 1

\* On the list valid, unsupported, valid the second call skipped the
\* unsupported entry: it read two entries and left the cursor at 0.
C37_Witness ==
  /\ Len(proxies) = 3
  /\ ValidEntry(proxies[1]) /\ ~ValidEntry(proxies[2]) /\ ValidEntry(proxies[3])
  /\ Len(proxyReturns) = 2 /\ proxyPc = "idle"
  /\ proxyReturns[1].inspected = 1
  /\ proxyReturns[2].inspected = 2 /\ proxyReturns[2].index = 2
  /\ currentProxyIndex = 0


\* C38: on a non-empty list the cursor always satisfies 0 <= cursor < N,
\* whatever mix of valid and unsupported entries the calls went over; on an
\* empty list every call returns null and leaves the cursor where it was.
C38_CursorInRange ==
  /\ Len(proxies) > 0 => currentProxyIndex \in 0..(Len(proxies) - 1)
  /\ Len(proxies) = 0 =>
       /\ currentProxyIndex = 0
       /\ \A k \in DOMAIN proxyReturns :
            proxyReturns[k] = [index |-> 0, url |-> NoProxy, inspected |-> 0]

\* Six calls went over a list of an unsupported entry between two valid
\* ones, and the cursor has wrapped around to 0.
C38_Witness ==
  /\ Len(proxies) = 3
  /\ ValidEntry(proxies[1]) /\ ~ValidEntry(proxies[2]) /\ ValidEntry(proxies[3])
  /\ Len(proxyReturns) = 6 /\ proxyPc = "idle"
  /\ currentProxyIndex = 0


\* ------------------------------------------------------- active bots claims
\* C39: the published activeBots is totalWallets when the run starts, is
\* totalWallets - k once k wallets have finished, however they ended, never
\* increases during the run and is 0 when the run reaches Completed.
C39_ActiveBotsCountsDown ==
  /\ [](isRunning => activeBots = totalWallets - i)
  /\ [](Completed => activeBots = 0 /\ i = totalWallets)
  /\ [][isRunning => activeBots' <= activeBots]_vars
  /\ [][(~isRunning /\ isRunning') => (activeBots' = totalWallets /\ i' = 0)]_vars

\* The first of two wallets has finished on a credential that did not
\* resolve; one active bot is left while the second wallet is in its
\* repetitions, one of which has failed.
C39_Witness ==
  /\ isRunning /\ totalWallets = 2 /\ i = 1
  /\ ~Resolves(0) /\ failedReps # {}
  /\ activeBots = 1


\* ------------------------------------------------------- sequencing claims
\* A step of a workflow is pending or running.
WorkflowInFlight == wfPc \notin {"idle", "returned", "thrown"}

\* C33: one wallet is processed at a time and one blocking operation is in
\* flight at a time: a workflow step is pending only while the repetition
\* that called it is awaited, never during the delay between repetitions;
\* repetition r+1 is invoked only after the workflow of repetition r has
\* returned or thrown, and the wallet loop moves on only after the last
\* repetition of the wallet has finished.
C33_OneOperationAtATime ==
  /\ [](WorkflowInFlight => appPc = "awaitWorkflow")
  /\ [](appPc = "awaitWorkflow" =>
          /\ Len(invocations) > 0
          /\ invocations[Len(invocations)] = <<i, rep>>)
  /\ [][invocations' # invocations =>
          /\ wfPc = "idle" /\ appPc = "repetition"
          /\ invocations' = Append(invocations, <<i, rep>>)
          /\ \A r \in 1..(rep - 1) :
               \E k \in DOMAIN invocations : invocations[k] = <<i, r>>
       ]_vars
  /\ [][i' # i =>
          /\ wfPc = "idle" /\ i' = i + 1
          /\ ~Resolves(i) \/ rep = repetitionsPerWallet + 1
       ]_vars

\* The second wallet is in its second repetition, with a step of the
\* workflow pending, after both repetitions of the first wallet.
C33_Witness ==
  /\ appPc = "awaitWorkflow" /\ WorkflowInFlight
  /\ i = 1 /\ rep = 2
  /\ invocations = <<<<0, 1>>, <<0, 2>>, <<1, 1>>, <<1, 2>>>>

\* Positions (from 1) of the valid entries of the loaded proxy list.
ValidPositions == {p \in 1..Len(proxies) : ValidEntry(proxies[p])}

\* The valid position that follows position p in rotation.
RECURSIVE NextValidAfter(_, _)
NextValidAfter(p, steps) ==
  LET q == (p % Len(proxies)) + 1 IN
  IF steps = 0 \/ q \in ValidPositions THEN q ELSE NextValidAfter(q, steps - 1)

\* C40: every outbound HTTP request of the upload subsystem (the content GET
\* and each PUT attempt) takes exactly one proxy from the rotator just before
\* the request: with P valid proxies, consecutive requests go through
\* consecutive valid proxies in rotation, and with P > 1 a retry never goes
\* through the proxy of the attempt before it.
C40_RequestsRotateProxies ==
  /\ Len(proxiesUsed) = Len(Gets) + Len(Puts)
  /\ ValidPositions # {} =>
       /\ \A k \in 1..Len(proxiesUsed) : proxiesUsed[k] \in ValidPositions
       /\ \A k \in 2..Len(proxiesUsed) :
            /\ proxiesUsed[k] = NextValidAfter(proxiesUsed[k - 1], Len(proxies))
            /\ Cardinality(ValidPositions) > 1 => proxiesUsed[k] # proxiesUsed[k - 1]

\* Transactions submitted and HTTP requests issued, and sleeps run to their end.
Requests == SelectSeq(trace, LAMBDA e : e.kind \in {"tx", "http"})
Delays == SelectSeq(trace, LAMBDA e : e.kind = "delay")

\* The run is in an inter-repetition sleep or in an upload retry delay.
Sleeping ==
  \/ appPc = "repetitionDelay"
  \/ appPc = "awaitWorkflow" /\ wfPc = "uploadRetryDelay"

\* C32: once the operator's stop signal has been received no transaction is
\* submitted, no upload attempt or other request is issued, no workflow is
\* invoked and no sleep runs to its end; the signal is taken during an
\* inter-repetition sleep and during an upload retry delay as well, so a
\* sleep in progress is cut off by the stop and not waited for.
C32_StopHonouredPromptly ==
  /\ [][stoppedAt # "none" =>
          /\ Requests' = Requests
          /\ Delays' = Delays
          /\ invocations' = invocations]_vars
  /\ [](Sleeping => ENABLED CtrlC)

\* The signal arrived during the retry delay after a failed PUT attempt.
C32_Witness ==
  /\ stoppedAt = "uploadRetryDelay"
  /\ Len(Puts) >= 1
  /\ Len(Delays) < Len(Puts)

====
